---- MODULE Spec2Model ----
(***************************************************************************)
(* A model of wildboar's distance front end (wildboar/distance/__init__.py):*)
(* argument validation and the match pipeline of subsequence_match and      *)
(* paired_subsequence_match, and the shape checks of the paired/pairwise    *)
(* (subsequence) distance functions, and matrix_profile; and of the         *)
(* shapelet forests (wildboar/ensemble/_ensemble.py, wildboar/tree.py): the *)
(* fit of a forest by concurrent jobs, each building its trees node by      *)
(* node from the tree's own random stream.                                  *)
(*                                                                          *)
(* Arrays are modelled by their shapes (sequences of naturals); the values  *)
(* the compiled distance routines return are modelled by a distance         *)
(* profile: for every series, the distance of every placement of the query. *)
(* One call is modelled as one action that stores the arguments, the        *)
(* returned value or raised exception, the local variables at return and    *)
(* whether the compiled routine was reached.                                *)
(***************************************************************************)
EXTENDS Integers, Sequences, FiniteSets, TLC

VARIABLES
    call,      \* the arguments of the call in progress, or NoCall
    ret,       \* what the call returned or raised
    locals,    \* the function's local variables when it returned
    invoked,   \* TRUE once the compiled distance routine has been called
    tie,       \* the order np.argsort leaves equal keys in (unspecified)
    forest,    \* a forest estimator: its parameters and the phase of its fit
    workers,   \* the jobs of the fit in progress, each building its trees
    streams,   \* per random stream, the number of values drawn from it
    estimators, \* estimators_: the fitted trees, by tree index
    prev,      \* estimators_ of the previous fit of the same forest
    tree       \* a shapelet tree estimator used on its own, and its builder

\* the variables of a call of a distance function and of a forest
cvars == <<call, ret, locals, invoked, tie>>
fvars == <<forest, workers, streams, estimators, prev>>
tvars == <<tree>>
vars == <<call, ret, locals, invoked, tie, forest, workers, streams, estimators, prev, tree>>

----------------------------------------------------------------------------
(* Bounds of the model *)

MaxSamples == 2        \* series per array, queries per list
MaxDims == 2           \* dimensions of a 3-D array
MaxTimestep == 2       \* timesteps of an array in the shape checks
MaxMatchTimestep == 3  \* timesteps of the series in the match pipeline
MaxDist == 2           \* distances are 0..MaxDist
MaxExclude == 2        \* integer exclusion zones are -1..MaxExclude
MaxMatches == 2        \* max_matches is None or 0..MaxMatches
MaxProfileTimestep == 4  \* timesteps of the series of a matrix profile
MaxTrainSamples == 4   \* samples of a training set
MaxSeed == 2           \* random_state of a forest is 0..MaxSeed
MaxEstimators == 2     \* n_estimators of a forest
MaxJobs == 2           \* n_jobs of a forest
NShapelets == 2        \* n_shapelets: shapelets sampled at a node
DrawMod == 7           \* the values of a random stream are 0..DrawMod - 1
MaxTreeDepth == 2      \* max_depth of a tree is None or 0..MaxTreeDepth
MaxTreeTimestep == 3   \* timesteps of the training series of a tree
SizeDen == 2           \* shapelet sizes are the fractions k / SizeDen
MaxRegSamples == 3     \* samples of the training set of a forest regressor
MaxTarget == 3         \* regression targets are 0, 1/2, .., MaxTarget / 2
MaxVarLen == 4         \* timesteps of a variable-length array
MaxVarSamples == 2     \* series of a variable-length array

(* Program constants *)

DefaultMaxMatches == 10
DefaultMinSamplesSplit == 2
ScoreScale == 60       \* squared errors are kept as integers, in units of 1 / 60
TargetDen == 2         \* real targets are kept as their number of halves

----------------------------------------------------------------------------
(* Python values *)

None == [kind |-> "none", v |-> 0]
Inf == [kind |-> "inf", v |-> 0]
Num(n) == [kind |-> "num", v |-> n]
\* a callable threshold; the model's representative is np.min
Callable == [kind |-> "callable", v |-> 0]
\* a threshold that is neither None, callable, str nor a real number
OtherType == [kind |-> "other", v |-> 0]
\* a float exclude num/den
ExFloat(n, d) == [kind |-> "float", v |-> n, den |-> d]
ExInt(n) == [kind |-> "int", v |-> n, den |-> 1]
NoExclude == [kind |-> "none", v |-> 0, den |-> 1]
\* a dim argument: an integer, or "warn" (the default), "mean", "full" where
\* the function takes them
DimInt(k) == [kind |-> "int", v |-> k]
DimWarn == [kind |-> "warn", v |-> 0]
DimMean == [kind |-> "mean", v |-> 0]
DimFull == [kind |-> "full", v |-> 0]

Min(a, b) == IF a <= b THEN a ELSE b
Abs(a) == IF a < 0 THEN -a ELSE a
Last(s) == s[Len(s)]
Range(s) == {s[i] : i \in DOMAIN s}

\* math.ceil(n / d) for n >= 0, d > 0
Ceil(n, d) == (n + d - 1) \div d

SetMin(S) == CHOOSE a \in S : \A b \in S : a <= b

----------------------------------------------------------------------------
(* Array shapes *)

ndim(x) == Len(x)
\* n_dims = x.shape[1] if x.ndim == 3 else 1
n_dims(x) == IF ndim(x) = 3 THEN x[2] ELSE 1
\* the number of series the compiled routines iterate over
n_series(x) == IF ndim(x) > 1 THEN x[1] ELSE 1

Shapes1(T) == {<<t>> : t \in 1..T}
Shapes2(N, T) == {<<n, t>> : n \in 1..N, t \in 1..T}
Shapes3(N, D, T) == {<<n, d, t>> : n \in 1..N, d \in 1..D, t \in 1..T}
Shapes(N, D, T) == Shapes1(T) \cup Shapes2(N, T) \cup Shapes3(N, D, T)

\* lists of 1..N queries, given by their lengths 1..M
QueryLists(N, M) == UNION {[1..k -> 1..M] : k \in 1..N}

----------------------------------------------------------------------------
(* numpy helpers *)

\* a is placed before b by np.argsort(d); equal keys are ordered as the build's
\* sort leaves them
Before(d, a, b, t) ==
    \/ d[a] < d[b]
    \/ d[a] = d[b] /\ (IF t = "first" THEN a < b ELSE a > b)

\* np.argsort(d): the positions of d in ascending order of distance
argsort(d, t) ==
    [r \in 1..Len(d) |->
        CHOOSE a \in 1..Len(d) :
            Cardinality({b \in 1..Len(d) : Before(d, b, a, t)}) = r - 1]

\* s[idx] for a boolean mask idx, given as the set of positions that are True
MaskSelect(s, idx) ==
    LET P == idx \cap (1..Len(s))
    IN  [k \in 1..Cardinality(P) |->
            s[CHOOSE p \in P : Cardinality({q \in P : q < p}) = k - 1]]

\* s[idx] for an integer index array idx
Take(s, idx) == [k \in 1..Len(idx) |-> s[idx[k]]]

----------------------------------------------------------------------------
(* The matches of one query in one series: parallel arrays of start indices *)
(* and distances, or None when the routine found no match.                  *)

NoneMatch == [none |-> TRUE, index |-> <<>>, distance |-> <<>>]
Match(index, distance) == [none |-> FALSE, index |-> index, distance |-> distance]

LeqThreshold(d, threshold) == threshold.kind = "inf" \/ d <= threshold.v

\* the placements of one series within the threshold, in order of occurrence
series_matches(profile, threshold) ==
    LET hit == {p \in 1..Len(profile) : LeqThreshold(profile[p], threshold)}
    IN  IF hit = {}
        THEN NoneMatch
        ELSE Match(MaskSelect([p \in 1..Len(profile) |-> p - 1], hit),
                   MaskSelect(profile, hit))

\* _distance._subsequence_match and _distance._paired_subsequence_match
_subsequence_match(profiles, threshold) ==
    [s \in 1..Len(profiles) |-> series_matches(profiles[s], threshold)]

\* mutant: the exclusion radius is one too small
_any_in_exclude_off_by_one(lst, i, exclude) ==
    \E k \in 1..Len(lst) :
        ~(lst[k] <= i - (exclude - 1) \/ lst[k] >= i + (exclude - 1))

_any_in_exclude(lst, i, exclude) ==
    \E k \in 1..Len(lst) : ~(lst[k] <= i - exclude \/ lst[k] >= i + exclude)

\* the loop of _exclude_trivial_matches from position i of the sorted order:
\* the positions whose idx flag is set
RECURSIVE exclude_loop(_, _, _, _, _)
exclude_loop(index, sort, exclude, i, excluded) ==
    IF i > Len(index)
    THEN {}
    ELSE IF ~_any_in_exclude(excluded, index[sort[i]], exclude)
         THEN {sort[i]} \cup exclude_loop(index, sort, exclude, i + 1,
                                          Append(excluded, index[sort[i]]))
         ELSE exclude_loop(index, sort, exclude, i + 1, excluded)

\* mutant: the candidates are visited in order of occurrence, not of distance
exclude_series_unsorted(m, exclude, t) ==
    IF m.none
    THEN NoneMatch
    ELSE LET idx == exclude_loop(m.index, [k \in 1..Len(m.index) |-> k],
                                 exclude, 1, <<>>)
         IN  Match(MaskSelect(m.index, idx), MaskSelect(m.distance, idx))

exclude_series(m, exclude, t) ==
    IF m.none
    THEN NoneMatch
    ELSE LET idx == exclude_loop(m.index, argsort(m.distance, t), exclude, 1, <<>>)
         IN  Match(MaskSelect(m.index, idx), MaskSelect(m.distance, idx))

_exclude_trivial_matches(matches, exclude, t) ==
    [s \in 1..Len(matches) |-> exclude_series(matches[s], exclude, t)]

max_matches_series(m, max_matches, t) ==
    IF m.none
    THEN NoneMatch
    ELSE LET idx == SubSeq(argsort(m.distance, t), 1,
                           Min(max_matches, Len(m.distance)))
         IN  Match(Take(m.index, idx), Take(m.distance, idx))

_filter_by_max_matches(matches, max_matches, t) ==
    [s \in 1..Len(matches) |-> max_matches_series(matches[s], max_matches, t)]

\* the threshold function of a callable threshold (the model's is np.min)
threshold_fn(d) == SetMin(Range(d))

\* max_dist(d) = d <= threshold_fn(d), as the set of positions that are True
max_dist(d) == {p \in 1..Len(d) : d[p] <= threshold_fn(d)}

max_dist_series(m) ==
    IF m.none
    THEN NoneMatch
    ELSE Match(MaskSelect(m.index, max_dist(m.distance)),
               MaskSelect(m.distance, max_dist(m.distance)))

_filter_by_max_dist(matches) ==
    [s \in 1..Len(matches) |-> max_dist_series(matches[s])]

----------------------------------------------------------------------------
(* Outcomes of a call *)

NoCall == [fn |-> "none"]
NoLocals == [threshold |-> None, max_matches |-> None, exclude |-> None,
             matched |-> <<>>, kept |-> <<>>, window |-> None]
\* A returned value: the match sets per series (the match functions), the
\* minimum distance and its index per pair or per series and subsequence (the
\* subsequence distance functions), or the shapes of the arrays whose
\* distances were computed (the whole-series distance functions).
\* The subsequence distance functions and matrix_profile also return in a
\* shape that depends on the input: a scalar, or an array of the given shape;
\* matrix_profile returns the index of the nearest neighbour of every window.
NoValue == [matches |-> <<>>, min |-> <<>>, min_matrix |-> <<>>, arrays |-> <<>>,
            mpi |-> <<>>, scalar |-> FALSE, shape |-> <<>>]
MatchValue(m) == [NoValue EXCEPT !.matches = m]
MinValue(d) == [NoValue EXCEPT !.min = d]
MinMatrixValue(d, fmt) ==
    [NoValue EXCEPT !.min_matrix = d, !.scalar = fmt.scalar, !.shape = fmt.shape]
MatrixProfileValue(mpi, fmt) ==
    [NoValue EXCEPT !.mpi = mpi, !.scalar = fmt.scalar, !.shape = fmt.shape]
ArraysValue(x, y) == [NoValue EXCEPT !.arrays = <<x, y>>]

NoReturn == [status |-> "none", err |-> "", value |-> NoValue]

\* an exception raised by the named check, before the compiled routine is called
Raise(exc, check) ==
    [ret |-> [status |-> exc, err |-> check, value |-> NoValue],
     locals |-> NoLocals, invoked |-> FALSE]

Return(value, lcl) ==
    [ret |-> [status |-> "ok", err |-> "", value |-> value],
     locals |-> lcl, invoked |-> TRUE]

\* bool(v) of an optional integer: None and 0 are false
Truthy(v) == v.kind = "num" /\ v.v # 0

\* "if not 0 >= dim < n_dims: raise ValueError": the chained comparison is
\* 0 >= dim and dim < n_dims
dim_in_range(dim, nd) == 0 >= dim.v /\ dim.v < nd

\* mutant: a subsequence as long as the series is rejected too
subsequence_too_long_or_equal(y, x) == \E i \in 1..Len(y) : y[i] >= Last(x)

\* "if s.shape[0] > x.shape[-1]: raise ValueError" for some subsequence s
subsequence_too_long(y, x) == \E i \in 1..Len(y) : y[i] > Last(x)

\* "if threshold is None: threshold = np.inf"
threshold_or_default(threshold) ==
    IF threshold.kind = "none" THEN Inf ELSE threshold

\* mutant: the default limit is applied whenever max_matches is None
max_matches_always_default(threshold, max_matches) ==
    IF max_matches.kind = "none" THEN Num(DefaultMaxMatches) ELSE max_matches

\* "if threshold is None: ... if max_matches is None: max_matches = 10"
max_matches_or_default(threshold, max_matches) ==
    IF threshold.kind = "none" /\ max_matches.kind = "none"
    THEN Num(DefaultMaxMatches)
    ELSE max_matches

\* the threshold handed to the compiled routine: np.inf for a callable or str
routine_threshold(threshold) ==
    IF threshold.kind = "callable" THEN Inf ELSE threshold

\* check_scalar(exclude, min_val=0) fails
exclude_invalid(exclude) == exclude.kind # "none" /\ exclude.v < 0

\* the exclusion zone: exact for an int, math.ceil(y.size * exclude) for a float
exclude_zone(exclude, size) ==
    CASE exclude.kind = "int" -> Num(exclude.v)
      [] exclude.kind = "float" -> Num(Ceil(size * exclude.v, exclude.den))
      [] OTHER -> None

\* subsequence_match(y, x, threshold, dim=, max_matches=, exclude=); profiles is
\* what the compiled routine computes for x and y, t the build's tie order
subsequence_match(y, x, threshold, dim, max_matches, exclude, profiles, t) ==
    IF Len(y) > 1 THEN Raise("ValueError", "single_subsequence")
    ELSE IF y[1] > Last(x) THEN Raise("ValueError", "subsequence_shape")
    ELSE IF ~dim_in_range(dim, n_dims(x)) THEN Raise("ValueError", "dim")
    ELSE IF threshold.kind = "other" THEN Raise("TypeError", "threshold")
    ELSE IF exclude_invalid(exclude) THEN Raise("ValueError", "exclude")
    ELSE
        LET thr == threshold_or_default(threshold)
            mm == max_matches_or_default(threshold, max_matches)
            exc == exclude_zone(exclude, y[1])
            found == _subsequence_match(profiles, routine_threshold(thr))
            matched == IF thr.kind = "callable"
                       THEN _filter_by_max_dist(found) ELSE found
            kept == IF Truthy(exc)
                    THEN _exclude_trivial_matches(matched, exc.v, t) ELSE matched
            out == IF Truthy(mm)
                   THEN _filter_by_max_matches(kept, mm.v, t) ELSE kept
        IN  Return(MatchValue(out), [threshold |-> routine_threshold(thr), max_matches |-> mm,
                         exclude |-> exc, matched |-> matched, kept |-> kept,
                         window |-> None])

\* mutant: the filter of a callable threshold is left out
paired_subsequence_match_no_max_dist(y, x, threshold, dim, max_matches, profiles, t) ==
    IF Len(y) # x[1] THEN Raise("ValueError", "n_samples")
    ELSE IF ~dim_in_range(dim, n_dims(x)) THEN Raise("ValueError", "dim")
    ELSE IF subsequence_too_long(y, x) THEN Raise("ValueError", "subsequence_shape")
    ELSE IF threshold.kind = "other" THEN Raise("TypeError", "threshold")
    ELSE
        LET thr == threshold_or_default(threshold)
            mm == max_matches_or_default(threshold, max_matches)
            found == _subsequence_match(profiles, routine_threshold(thr))
            out == IF Truthy(mm)
                   THEN _filter_by_max_matches(found, mm.v, t) ELSE found
        IN  Return(MatchValue(out),
                   [threshold |-> routine_threshold(thr), max_matches |-> mm,
                    exclude |-> None, matched |-> found, kept |-> found,
                    window |-> None])

\* paired_subsequence_match(y, x, threshold, dim=, max_matches=)
paired_subsequence_match(y, x, threshold, dim, max_matches, profiles, t) ==
    IF Len(y) # x[1] THEN Raise("ValueError", "n_samples")
    ELSE IF ~dim_in_range(dim, n_dims(x)) THEN Raise("ValueError", "dim")
    ELSE IF subsequence_too_long(y, x) THEN Raise("ValueError", "subsequence_shape")
    ELSE IF threshold.kind = "other" THEN Raise("TypeError", "threshold")
    ELSE
        LET thr == threshold_or_default(threshold)
            mm == max_matches_or_default(threshold, max_matches)
            found == _subsequence_match(profiles, routine_threshold(thr))
            matched == IF thr.kind = "callable"
                       THEN _filter_by_max_dist(found) ELSE found
            out == IF Truthy(mm)
                   THEN _filter_by_max_matches(matched, mm.v, t) ELSE matched
        IN  Return(MatchValue(out), [threshold |-> routine_threshold(thr), max_matches |-> mm,
                         exclude |-> None, matched |-> matched, kept |-> matched,
                         window |-> None])

----------------------------------------------------------------------------
(* Minimum-distance search *)

\* np.squeeze: the axes of length one are dropped
squeeze(shape) == SelectSeq(shape, LAMBDA n : n # 1)

\* _format_return(x, y_dims, x_dims) of an array x of the given 2-D shape
_format_return(shape, y_dims, x_dims) ==
    IF x_dims = 1 /\ y_dims = 1 /\ shape[1] * shape[2] = 1
    THEN [scalar |-> TRUE, shape |-> <<>>]
    ELSE IF x_dims = 1 \/ y_dims = 1
    THEN [scalar |-> FALSE, shape |-> squeeze(shape)]
    ELSE [scalar |-> FALSE, shape |-> shape]

\* the scan of the placements p..Len(profile) given the best placement so far
RECURSIVE search_from_keep_last(_, _, _)
search_from_keep_last(profile, p, best) ==
    IF p > Len(profile) THEN best
    ELSE search_from_keep_last(profile, p + 1,
             IF profile[p] <= best.dist
             THEN [dist |-> profile[p], ind |-> p - 1] ELSE best)

\* mutant: a placement as close as the best so far replaces it
search_keep_last(profile) ==
    search_from_keep_last(profile, 2, [dist |-> profile[1], ind |-> 0])

\* a placement replaces the best so far only when it is strictly closer
RECURSIVE search_from(_, _, _)
search_from(profile, p, best) ==
    IF p > Len(profile) THEN best
    ELSE search_from(profile, p + 1,
             IF profile[p] < best.dist
             THEN [dist |-> profile[p], ind |-> p - 1] ELSE best)

\* search(query, series): the placements are scanned in order of start index;
\* the result is the minimum distance and the earliest placement attaining it
search(profile) ==
    search_from(profile, 2, [dist |-> profile[1], ind |-> 0])

\* pairwise_subsequence_distance(y, x); profiles[i][j] is the profile of
\* subsequence j in series i
pairwise_subsequence_distance(y, x, dim, profiles) ==
    IF subsequence_too_long(y, x) THEN Raise("ValueError", "subsequence_shape")
    ELSE Return(MinMatrixValue([i \in 1..Len(profiles) |->
                    [j \in 1..Len(profiles[i]) |-> search(profiles[i][j])]],
                    _format_return(<<n_series(x), Len(y)>>, Len(y), ndim(x))),
                NoLocals)

\* paired_subsequence_distance(y, x); profiles[i] is the profile of
\* subsequence i in series i
paired_subsequence_distance(y, x, dim, profiles) ==
    IF ~dim_in_range(dim, n_dims(x)) THEN Raise("ValueError", "dim")
    ELSE IF subsequence_too_long(y, x) THEN Raise("ValueError", "subsequence_shape")
    ELSE IF Len(y) # n_series(x) THEN Raise("ValueError", "n_samples")
    ELSE Return(MinValue([i \in 1..Len(profiles) |-> search(profiles[i])]), NoLocals)

----------------------------------------------------------------------------
(* Whole-series distances *)

Metrics == {"euclidean", "dtw"}
is_elastic(metric) == metric = "dtw"

\* np.broadcast_to(y, x.shape) succeeds: aligned from the last axis, every
\* axis of y is 1 or equal to the axis of x
broadcastable(y, x) ==
    /\ Len(y) <= Len(x)
    /\ \A k \in 0..(Len(y) - 1) : y[Len(y) - k] \in {1, x[Len(x) - k]}

\* the dim selection shared by paired_distance and pairwise_distance: the
\* default "warn" becomes 0, "mean" of a single dimension becomes 0
dim_selected(dim, nd) ==
    LET d0 == IF dim.kind = "warn" THEN DimInt(0) ELSE dim
        d1 == IF nd = 1 /\ d0.kind = "mean" THEN DimInt(0) ELSE d0
    IN  d1

dim_accepted(dim, nd) ==
    LET d == dim_selected(dim, nd)
    IN  d.kind \in {"mean", "full"} \/ (d.kind = "int" /\ 0 <= d.v /\ d.v < nd)

\* "if x.shape[x.ndim - 1] != x.shape[x.ndim - 1] and not metric.is_elastic"
paired_timestep_mismatch(x, y, metric) ==
    x[ndim(x)] # x[ndim(x)] /\ ~is_elastic(metric)

\* paired_distance(x, y, dim=, metric=)
paired_distance(x, y, dim, metric) ==
    IF ~broadcastable(y, x) THEN Raise("ValueError", "broadcast")
    ELSE LET yb == x   \* y = np.broadcast_to(y, x.shape)
         IN  IF ndim(x) # ndim(yb) THEN Raise("ValueError", "ndim")
             ELSE IF ndim(x) = 3 /\ x[2] # yb[2] THEN Raise("ValueError", "n_dims")
             ELSE IF ndim(x) > 1 /\ ndim(yb) > 1 /\ x[1] # yb[1]
                  THEN Raise("ValueError", "n_samples")
             ELSE IF paired_timestep_mismatch(x, yb, metric)
                  THEN Raise("ValueError", "n_timestep")
             ELSE IF ~dim_accepted(dim, n_dims(x)) THEN Raise("ValueError", "dim")
             ELSE Return(ArraysValue(x, yb), NoLocals)

\* "if x.shape[-1] != y.shape[-1] and not metric.is_elastic"
pairwise_timestep_mismatch(x, y, metric) ==
    Last(x) # Last(y) /\ ~is_elastic(metric)

\* pairwise_distance(x, y, dim=, metric=) with y given and not x itself
pairwise_distance(x, y, dim, metric) ==
    IF ndim(x) # 1 /\ ndim(y) # 1 /\ ndim(x) # ndim(y) THEN Raise("ValueError", "ndim")
    ELSE IF ndim(x) = 3 /\ ndim(y) < 2 THEN Raise("IndexError", "n_dims")
    ELSE IF ndim(x) = 3 /\ x[2] # y[2] THEN Raise("ValueError", "n_dims")
    ELSE IF pairwise_timestep_mismatch(x, y, metric) THEN Raise("ValueError", "n_timestep")
    ELSE IF ~dim_accepted(dim, n_dims(x)) THEN Raise("ValueError", "dim")
    ELSE Return(ArraysValue(x, y), NoLocals)

\* pairwise_distance(x) and pairwise_distance(x, x)
singleton_pairwise_distance(x, dim, metric) ==
    IF ndim(x) = 1
    THEN [ret |-> [status |-> "ok", err |-> "", value |-> NoValue],
          locals |-> NoLocals, invoked |-> FALSE]
    ELSE IF ~dim_accepted(dim, n_dims(x)) THEN Raise("ValueError", "dim")
    ELSE Return(ArraysValue(x, x), NoLocals)

----------------------------------------------------------------------------
(* The matrix profile *)

\* y=None
NoArray == <<>>

\* "exclude = exclude if exclude is not None else 0.0" for a join with y and
\* "... else 0.2" for a self-join; mutant: the default of the self-join is
\* used for both
mp_exclude_same_default(exclude, self_join) ==
    IF exclude.kind # "none" THEN exclude ELSE ExFloat(1, 5)

mp_exclude_or_default(exclude, self_join) ==
    IF exclude.kind # "none" THEN exclude
    ELSE IF self_join THEN ExFloat(1, 5) ELSE ExFloat(0, 1)

\* check_scalar(window, ...): an int in [1, min(y.shape[-1], x.shape[-1])],
\* a float in (0, 1]
mp_window_invalid(window, x, y) ==
    IF window.kind = "int"
    THEN ~(1 <= window.v /\ window.v <= Min(Last(y), Last(x)))
    ELSE ~(0 < window.v /\ window.v <= window.den)

\* "window = math.ceil(window * y.shape[-1])" for a float
mp_window(window, y) ==
    IF window.kind = "int" THEN window.v ELSE Ceil(window.v * Last(y), window.den)

\* check_scalar(exclude, ...): an int >= 1, a float >= 0
mp_exclude_invalid(exclude) ==
    IF exclude.kind = "int" THEN exclude.v < 1 ELSE exclude.v < 0

\* mutant: the fraction of the window is rounded down
mp_exclude_floor(exclude, window) ==
    IF exclude.kind = "int" THEN exclude.v ELSE (window * exclude.v) \div exclude.den

\* "exclude = math.ceil(window * exclude)" for a float
mp_exclude(exclude, window) ==
    IF exclude.kind = "int" THEN exclude.v ELSE Ceil(window * exclude.v, exclude.den)

\* the index reported for a window that has no neighbour outside its zone
NoNeighbour == 0 - 1

\* The windows of x that window i of y is compared with: those outside the
\* symmetric neighbourhood of radius exclude around i; in a join of two
\* different arrays with radius 0, every window of x.
mp_neighbours(i, x_size, exclude, self_join) ==
    {j \in 0..(x_size - 1) : (~self_join /\ exclude = 0) \/ Abs(j - i) > exclude}

\* The index arrays _matrix_profile._paired_matrix_profile can return: for
\* every sample and every window of y, the start of one of the windows it is
\* compared with (which one depends on the values of the series).
_paired_matrix_profile(x, y, window, exclude, self_join) ==
    LET y_size == Last(y) - window + 1
        x_size == Last(x) - window + 1
    IN  [1..n_series(x) ->
            {mpi \in [1..y_size -> NoNeighbour..(x_size - 1)] :
                \A p \in 1..y_size :
                    IF mp_neighbours(p - 1, x_size, exclude, self_join) = {}
                    THEN mpi[p] = NoNeighbour
                    ELSE mpi[p] \in mp_neighbours(p - 1, x_size, exclude, self_join)}]

\* the checks of matrix_profile on the array it joins x with
mp_check_y(x, y) ==
    IF ndim(x) > 1 /\ ~broadcastable(y, x) THEN "broadcast"
    ELSE LET yb == IF ndim(x) > 1 THEN x ELSE y
         IN  IF ndim(x) # ndim(yb) THEN "ndim"
             ELSE IF x[1] # yb[1] THEN "n_samples"
             ELSE IF ndim(x) > 2 /\ x[2] # yb[2] THEN "n_dims"
             ELSE IF ~(Last(yb) <= Last(x)) THEN "n_timestep"
             ELSE ""

\* matrix_profile(x, y=, window=, dim=, exclude=, return_index=True); mpi is
\* the index array the compiled routine returns
matrix_profile(x, y, window, dim, exclude, mpi) ==
    LET self_join == y = NoArray
        yb == IF self_join \/ ndim(x) > 1 THEN x ELSE y
        exc == mp_exclude_or_default(exclude, self_join)
    IN  IF ~self_join /\ mp_check_y(x, y) # ""
        THEN Raise("ValueError", mp_check_y(x, y))
        ELSE IF ndim(x) > 2 /\ ~(0 <= dim.v /\ dim.v < x[2])
        THEN Raise("ValueError", "dim")
        ELSE IF mp_window_invalid(window, x, yb) THEN Raise("ValueError", "window")
        ELSE IF mp_exclude_invalid(exc) THEN Raise("ValueError", "exclude")
        ELSE
            LET w == mp_window(window, yb)
                e == mp_exclude(exc, w)
            IN  Return(MatrixProfileValue(mpi,
                           _format_return(<<n_series(x), Last(yb) - w + 1>>, 2, ndim(x))),
                       [NoLocals EXCEPT !.window = Num(w), !.exclude = Num(e)])

----------------------------------------------------------------------------
(* The shapelet tree builder *)

\* The child of a leaf
NoChild == 0 - 1

\* RandomState(seed): the k-th value of the stream (k = 0, 1, ...)
draw(seed, k) == (seed * seed + 3 * seed * (k + 1) + 5 * k + 1) % DrawMod

\* the elements of a set of numbers in ascending order
SetToSeq(S) ==
    CHOOSE q \in [1..Cardinality(S) -> S] :
        \A i, j \in 1..Cardinality(S) : i < j => q[i] < q[j]

\* "max_depth = self.max_depth or 2 ** 31" (2 ** 31 - 1 here, the largest
\* integer of the model: no tree is that deep)
max_depth_or_default(max_depth) ==
    IF Truthy(max_depth) THEN max_depth.v ELSE (2 ^ 30 - 1) * 2 + 1

\* The training set is given by the labels y of its samples; the series of
\* sample s is identified with s, and the subsequence distance between a
\* shapelet taken from sample src and sample s is their difference.
shapelet_distance(src, s) == Abs(s - src)

\* all samples of the node share one label
pure(samples, y) == \A a, b \in samples : y[a] = y[b]

\* the samples of the node that are not of its majority class
impurity(samples, y) ==
    LET count(c) == Cardinality({s \in samples : y[s] = c})
        most == CHOOSE c \in {y[s] : s \in samples} :
                    \A o \in {y[s] : s \in samples} : count(c) >= count(o)
    IN  IF samples = {} THEN 0 ELSE Cardinality(samples) - count(most)

\* the sum of f over the samples
RECURSIVE SumOver(_, _)
SumOver(samples, f) ==
    IF samples = {} THEN 0
    ELSE LET s == CHOOSE s \in samples : TRUE
         IN  f[s] + SumOver(samples \ {s}, f)

\* the squared deviations of the targets of the node from their mean, in
\* units of 1 / ScoreScale (a multiple of every node size of the model)
squared_error(samples, y) ==
    IF samples = {} THEN 0
    ELSE ScoreScale * SumOver(samples, [s \in DOMAIN y |-> y[s] * y[s]])
           - (ScoreScale \div Cardinality(samples))
               * SumOver(samples, y) * SumOver(samples, y)

\* the builders of regression trees
RegressionBuilders ==
    {"RegressionShapeletTreeBuilder", "ExtraRegressionShapeletTreeBuilder"}

\* the impurity a builder measures a partition by
node_impurity(builder, samples, y) ==
    IF builder \in RegressionBuilders THEN squared_error(samples, y)
    ELSE impurity(samples, y)

\* mutant: a split that leaves every sample on the left
left_partition_all(samples, src, t) == samples

\* the left partition of a split: distance <= threshold (thresholds are
\* midpoints of adjacent distances, kept as twice their value)
left_partition(samples, src, t) ==
    {s \in samples : 2 * shapelet_distance(src, s) <= t}

\* the candidate splits of a node: for the k-th sampled shapelet (taken from
\* a random sample of the node), the midpoints of the adjacent distances
candidate_splits(samples, y, args, seed, counter) ==
    LET order == SetToSeq(samples)
        src(k) == order[(draw(seed, counter + k - 1) % Len(order)) + 1]
        dists(k) == {shapelet_distance(src(k), s) : s \in samples}
        mids(k) == {p[1] + p[2] : p \in
                      {q \in dists(k) \X dists(k) :
                          /\ q[1] < q[2]
                          /\ ~\E e \in dists(k) : q[1] < e /\ e < q[2]}}
        split(k, t) ==
            [k |-> k, src |-> src(k), t |-> t,
             score |-> node_impurity(args.builder, left_partition(samples, src(k), t), y)
                         + node_impurity(args.builder,
                                         samples \ left_partition(samples, src(k), t), y)]
    IN  UNION {{split(k, t) : t \in mids(k)} : k \in 1..args.n_shapelets}

\* the best candidate: the lowest impurity of the partitions, the first
\* sampled shapelet among equals, then the lowest threshold
best_split(cands) ==
    CHOOSE b \in cands : \A o \in cands :
        \/ b.score < o.score
        \/ b.score = o.score /\ b.k < o.k
        \/ b.score = o.score /\ b.k = o.k /\ b.t <= o.t

NoBuilder ==
    [left |-> <<>>, right |-> <<>>, threshold |-> <<>>, shapelet |-> <<>>,
     node_samples |-> <<>>, node_depth |-> <<>>, stack |-> <<>>]
NoTree == [left |-> <<>>, right |-> <<>>, threshold |-> <<>>, shapelet |-> <<>>]

\* a builder with the root, holding the given samples, to be processed
new_builder(samples) ==
    [NoBuilder EXCEPT !.stack = <<[samples |-> samples, depth |-> 0,
                                   parent |-> NoChild, side |-> "root"]>>]

\* the tree of a builder
tree_of(tb) ==
    [left |-> tb.left, right |-> tb.right, threshold |-> tb.threshold,
     shapelet |-> tb.shapelet]

\* mutant: the link from the parent is always stored as its left child
link_child_left_only(tb, task, id) ==
    IF task.side = "root" THEN tb
    ELSE [tb EXCEPT !.left[task.parent + 1] = id]

\* the node that is created becomes the left or the right child of its parent
link_child(tb, task, id) ==
    IF task.side = "left" THEN [tb EXCEPT !.left[task.parent + 1] = id]
    ELSE IF task.side = "right" THEN [tb EXCEPT !.right[task.parent + 1] = id]
    ELSE tb

\* One node of the tree: the node on top of the stack gets the next id; it
\* is a leaf if it has fewer than min_samples_split samples, is at max_depth,
\* is pure or has no split; otherwise it stores the shapelet and the
\* threshold of its best split and its partitions are pushed, the left one
\* on top. args are the arguments the builder was made with, counter is the
\* position of the builder's random stream.
build_node(tb, y, args, seed, counter) ==
    LET task == Head(tb.stack)
        id == Len(tb.left)
        linked == link_child(tb, task, id)
        stop == \/ Cardinality(task.samples) < args.min_samples_split
                \/ task.depth >= args.max_depth
                \/ pure(task.samples, y)
        cands == IF stop THEN {} ELSE candidate_splits(task.samples, y, args, seed, counter)
        drawn == IF stop THEN 0 ELSE args.n_shapelets
        b == best_split(cands)
        l == left_partition(task.samples, b.src, b.t)
    IN  [counter |-> counter + drawn,
         tb |-> [left |-> Append(linked.left, NoChild),
                 right |-> Append(linked.right, NoChild),
                 threshold |-> Append(linked.threshold, IF cands = {} THEN 0 ELSE b.t),
                 shapelet |-> Append(linked.shapelet, IF cands = {} THEN 0 ELSE b.src),
                 node_samples |-> Append(linked.node_samples, task.samples),
                 node_depth |-> Append(linked.node_depth, task.depth),
                 stack |-> IF cands = {} THEN Tail(tb.stack)
                           ELSE <<[samples |-> l, depth |-> task.depth + 1,
                                   parent |-> id, side |-> "left"],
                                  [samples |-> task.samples \ l, depth |-> task.depth + 1,
                                   parent |-> id, side |-> "right"]>> \o Tail(tb.stack)]]

\* build_tree(): nodes are built until the stack is empty
RECURSIVE build_tree(_, _, _, _, _)
build_tree(tb, y, args, seed, counter) ==
    IF tb.stack = <<>> THEN [counter |-> counter, tb |-> tb]
    ELSE LET r == build_node(tb, y, args, seed, counter)
         IN  build_tree(r.tb, y, args, seed, r.counter)

----------------------------------------------------------------------------
(* Variable-length series *)

\* The values of a series: an ordinary number, a not-a-number that is not
\* the marker, and the end-of-series marker (the NaN of bits 0x7FF0000000000009)
Ordinary == "v"
NaN == "nan"
eos == "eos"

\* An array: its number of axes and its nested rows
Array(n, data) == [ndim |-> n, data |-> data]

\* isnan(x) and the low four bits of x are 9
is_end_of_series(v) == v = eos

\* the series of an array, whatever its sample and dimension
AllSeries(x) ==
    CASE x.ndim = 1 -> {x.data}
      [] x.ndim = 2 -> Range(x.data)
      [] x.ndim = 3 -> UNION {Range(x.data[i]) : i \in DOMAIN x.data}

\* x.shape[-1]
timesteps(x) == Len(CHOOSE q \in AllSeries(x) : TRUE)

\* f, a function of the series of the array, applied along the last axis
AlongLastAxis(x, f) ==
    CASE x.ndim = 1 -> f[x.data]
      [] x.ndim = 2 -> [i \in DOMAIN x.data |-> f[x.data[i]]]
      [] x.ndim = 3 -> [i \in DOMAIN x.data |->
                           [j \in DOMAIN x.data[i] |-> f[x.data[i][j]]]]

\* np.argmax of booleans: the index (from 0) of the first True, 0 if none
argmax(b) ==
    IF \E i \in DOMAIN b : b[i]
    THEN (CHOOSE i \in DOMAIN b : b[i] /\ \A j \in 1..(i - 1) : ~b[j]) - 1
    ELSE 0

\* np.c_[False, eos].argmax(axis=-1) - 1 of one series
eos_argmax(series) ==
    argmax(<<FALSE>> \o [i \in DOMAIN series |-> is_end_of_series(series[i])]) - 1

\* get_variable_length: "eos.shape[0] if argmax < 0 else argmax" for one
\* series, "argmax[argmax == -1] = eos.shape[-1]" for an array of series
get_variable_length(x) ==
    LET length(series) ==
            IF x.ndim = 1
            THEN IF eos_argmax(series) < 0 THEN Len(series) ELSE eos_argmax(series)
            ELSE IF eos_argmax(series) = 0 - 1 THEN timesteps(x) ELSE eos_argmax(series)
    IN  AlongLastAxis(x, [q \in AllSeries(x) |-> length(q)])

\* np.nonzero(iseos(x))[-1]: the timesteps (from 0) that hold a marker
eos_timesteps(x) ==
    {i - 1 : i \in {k \in 1..timesteps(x) :
                       \E series \in AllSeries(x) : is_end_of_series(series[k])}}

\* x[..., :n] for 0 <= n
slice(x, n) ==
    LET head(series) == SubSeq(series, 1, Min(n, Len(series)))
    IN  Array(x.ndim, AlongLastAxis(x, [q \in AllSeries(x) |-> head(q)]))

\* mutant: the cut is made at the last marker
cut_last(positions) == CHOOSE a \in positions : \A b \in positions : a >= b

\* np.min(eos)
cut(positions) == SetMin(positions)

UtilReturn(value) ==
    [ret |-> [status |-> "ok", err |-> "", value |-> value],
     locals |-> NoLocals, invoked |-> FALSE]

UtilRaise(exc, check) ==
    [ret |-> [status |-> exc, err |-> check, value |-> NoValue],
     locals |-> NoLocals, invoked |-> FALSE]

\* truncate(x, n_shortest) of an array that check_array accepts
truncate(x, n_shortest) ==
    IF n_shortest = None
    THEN IF eos_timesteps(x) # {}
         THEN UtilReturn(slice(x, cut(eos_timesteps(x))))
         ELSE UtilReturn(x)
    ELSE IF n_shortest.v > timesteps(x)
         THEN UtilRaise("ValueError", "n_shortest")
         ELSE UtilReturn(slice(x, n_shortest.v))

\* ForestMixin._validate_x_predict of a forest fitted on n_dims_ dimensions
\* and n_timestep_ timesteps, for an array of shape x that check_array
\* passes. The message of the timestep check is formatted from
\* self.n_timestep, an attribute no forest has, before the ValueError is
\* made. The value returned is the shape of the reshaped array.
_validate_x_predict(self, x) ==
    IF self.n_dims_ > 1 /\ Len(x) # 3
    THEN UtilRaise("ValueError", "ndim")
    ELSE IF Last(x) # self.n_timestep_
         THEN IF "n_timestep" \in self.attributes
              THEN UtilRaise("ValueError", "n_timestep")
              ELSE UtilRaise("AttributeError", "n_timestep")
         ELSE IF Len(x) > 2 /\ x[2] # self.n_dims_
              THEN UtilRaise("ValueError", "n_dims")
              ELSE UtilReturn(<<x[1], self.n_dims_ * self.n_timestep_>>)

\* the attributes fit leaves on a forest that _validate_x_predict reads
fitted_attributes == {"n_dims_", "n_timestep_", "estimators_"}

\* ForestMixin.apply(x): the trees are evaluated on the validated array
forest_apply(self, x) ==
    LET validated == _validate_x_predict(self, x)
    IN  IF validated.ret.status = "ok"
        THEN [validated EXCEPT !.invoked = TRUE]
        ELSE validated

\* the values of the keyword arguments of counterfactuals
Deprecated == [kind |-> "deprecated", v |-> 0]
Metric == [kind |-> "str", v |-> 0]
Bool(b) == [kind |-> "bool", v |-> IF b THEN 1 ELSE 0]

\* the parameters of _proximity
proximity_parameters == {"x_true", "x_counterfactuals", "metric"}

\* _proximity called with the given keyword arguments: a keyword that is no
\* parameter is a TypeError; a str metric gives the mean paired distance,
\* another metric that is neither callable, list nor dict a ValueError
_proximity(keywords, metric) ==
    IF ~(keywords \subseteq proximity_parameters)
    THEN [status |-> "TypeError", sc |-> "none"]
    ELSE IF metric.kind = "str"
         THEN [status |-> "ok", sc |-> "mean_paired_distance"]
         ELSE [status |-> "ValueError", sc |-> "none"]

\* counterfactuals(estimator, x, y, scoring=, valid_scoring=, proximity=)
\* from the prediction of the estimator for the counterfactuals on: predicted
\* is estimator.predict(x_counterfactuals), y the desired labels
counterfactuals(predicted, y, scoring, valid_scoring, proximity) ==
    LET valid == [i \in DOMAIN predicted |-> predicted[i] = y[i]]
        metric == IF scoring # Deprecated THEN scoring ELSE proximity
        use_valid == IF valid_scoring # Deprecated THEN valid_scoring ELSE Bool(FALSE)
        sc == _proximity({"metric", "valid"}, metric)
    IN  IF scoring # None
        THEN IF sc.status = "ok"
             THEN UtilReturn([n |-> 3, valid |-> valid, score |-> sc.sc,
                              valid_scoring |-> (use_valid = Bool(TRUE))])
             ELSE UtilRaise(sc.status, "_proximity")
        ELSE UtilReturn([n |-> 2, valid |-> valid, score |-> "none",
                         valid_scoring |-> (use_valid = Bool(TRUE))])


----------------------------------------------------------------------------
(* Shapelet tree estimators *)

TreeKinds ==
    {"ShapeletTreeClassifier", "ExtraShapeletTreeClassifier",
     "ShapeletTreeRegressor", "ExtraShapeletTreeRegressor"}
ExtraKinds == {"ExtraShapeletTreeClassifier", "ExtraShapeletTreeRegressor"}

NoArgs ==
    [builder |-> "", n_shapelets |-> 0, min_shapelet_size |-> 0,
     max_shapelet_size |-> 0, max_depth |-> 0, min_samples_split |-> 0]

\* no estimator has been made. Shapelet sizes are fractions of the series
\* length, kept as their numerator over SizeDen.
NoEstimator ==
    [phase |-> "none", kind |-> "", error |-> "", given_max_depth |-> None,
     max_depth |-> None, min_samples_split |-> 0, n_shapelets |-> 0,
     min_shapelet_size |-> 0, max_shapelet_size |-> 0, random_state |-> 0,
     n_timestep_ |-> 0, y |-> <<>>, args |-> NoArgs, counter |-> 0,
     tb |-> NoBuilder, tree_ |-> NoTree, leaf_id |-> <<>>]

\* the checks of BaseShapeletTree.__init__
init_invalid(min_shapelet_size, max_shapelet_size) ==
    \/ min_shapelet_size < 0
    \/ min_shapelet_size > max_shapelet_size
    \/ max_shapelet_size > SizeDen

\* the n_shapelets the constructor of the kind hands to BaseShapeletTree
init_n_shapelets(kind, n_shapelets) ==
    IF kind \in ExtraKinds THEN 1 ELSE n_shapelets

\* BaseShapeletTree.__init__, reached from the constructor of the kind
BaseShapeletTree(kind, max_depth, n_shapelets, min_shapelet_size, max_shapelet_size, random_state) ==
    IF init_invalid(min_shapelet_size, max_shapelet_size)
    THEN [NoEstimator EXCEPT !.phase = "raised", !.kind = kind,
                             !.error = "ValueError"]
    ELSE [NoEstimator EXCEPT
             !.phase = "new", !.kind = kind,
             !.given_max_depth = max_depth,
             !.max_depth = Num(max_depth_or_default(max_depth)),
             !.min_samples_split = DefaultMinSamplesSplit,
             !.n_shapelets = init_n_shapelets(kind, n_shapelets),
             !.min_shapelet_size = min_shapelet_size,
             !.max_shapelet_size = max_shapelet_size,
             !.random_state = random_state]

\* int(n_timestep * size) of a size that is not negative
shapelet_length(n_timestep, size) == (n_timestep * size) \div SizeDen

\* the builder class each kind makes
builder_of(kind) ==
    CASE kind = "ShapeletTreeClassifier" -> "ClassificationShapeletTreeBuilder"
      [] kind = "ExtraShapeletTreeClassifier" -> "ExtraClassificationShapeletTreeBuilder"
      [] kind = "ShapeletTreeRegressor" -> "RegressionShapeletTreeBuilder"
      [] kind = "ExtraShapeletTreeRegressor" -> "ExtraRegressionShapeletTreeBuilder"

\* the first argument of the builder: ExtraShapeletTreeClassifier hands the
\* literal 1, the other kinds hand self.n_shapelets
builder_n_shapelets(t) ==
    IF t.kind = "ExtraShapeletTreeClassifier" THEN 1 ELSE t.n_shapelets

\* _make_tree_builder: the arguments the builder is made with
_make_tree_builder(t, n_timestep) ==
    LET max_shapelet_size == shapelet_length(n_timestep, t.max_shapelet_size)
        min_shapelet_size == shapelet_length(n_timestep, t.min_shapelet_size)
    IN  [builder |-> builder_of(t.kind),
         n_shapelets |-> builder_n_shapelets(t),
         min_shapelet_size |-> IF min_shapelet_size < 2 THEN 2 ELSE min_shapelet_size,
         max_shapelet_size |-> max_shapelet_size,
         max_depth |-> max_depth_or_default(t.max_depth),
         min_samples_split |-> t.min_samples_split]

\* mutant: the descent goes left when the distance is above the threshold
apply_left_swapped(distance2, threshold) == distance2 > threshold

\* the descent goes left when the distance is at most the threshold (both
\* are kept as twice their value)
apply_left(distance2, threshold) == distance2 <= threshold

\* Tree.apply of one sample: the descent from a node to a leaf
RECURSIVE apply_from(_, _, _)
apply_from(t, s, node) ==
    IF t.left[node + 1] = NoChild THEN node
    ELSE apply_from(t, s,
             IF apply_left(2 * shapelet_distance(t.shapelet[node + 1], s),
                           t.threshold[node + 1])
             THEN t.left[node + 1] ELSE t.right[node + 1])

\* Tree.apply: the leaf id of every sample
apply(t, samples) == [s \in samples |-> apply_from(t, s, 0)]

\* the builder can sample a shapelet length and a start in a series
can_sample(args, n_timestep) ==
    /\ args.min_shapelet_size <= args.max_shapelet_size
    /\ args.max_shapelet_size <= n_timestep
    /\ args.n_shapelets >= 1

----------------------------------------------------------------------------
(* Forests of shapelet trees *)

ForestKinds == {"ShapeletForestClassifier", "ShapeletForestRegressor"}

\* the forests that derive from BaseForestRegressor
RegressorKinds == {"ShapeletForestRegressor", "ShapeletForestEmbedding"}

\* estimator_params of ShapeletForestClassifier and ShapeletForestRegressor
estimator_params(kind) ==
    {"max_depth", "n_shapelets", "min_samples_split", "min_samples_leaf",
     "min_impurity_decrease", "min_shapelet_size", "max_shapelet_size",
     "metric", "metric_params", "criterion"}

NoForest ==
    [phase |-> "none", kind |-> "", estimator_params |-> {}, random_state |-> 0,
     n_estimators |-> 0, n_jobs |-> 0, max_depth |-> None, y |-> <<>>, n_fits |-> 0,
     y_given |-> <<>>]

\* astype(int) of a real number kept in units of 1 / TargetDen: the
\* fraction is cut off, towards zero
to_int(v) == IF v >= 0 THEN v \div TargetDen ELSE 0 - ((0 - v) \div TargetDen)

\* check_array(y, ensure_2d=False, dtype=int) of BaseForestRegressor.fit:
\* the targets are converted to integers (kept in units of 1 / TargetDen)
check_array_int(y) == [i \in DOMAIN y |-> TargetDen * to_int(y[i])]

\* random_state.uniform(size=n) of ShapeletForestEmbedding.fit_transform:
\* n targets in [0, 1)
uniform(random_state, n) == [i \in 1..n |-> draw(random_state, i - 1) % TargetDen]

\* mutant: the generator made from random_state is kept from fit to fit
fit_position_continued(n_fits, n_estimators) == n_fits * n_estimators

\* fit makes a new generator from the integer random_state: the position
\* in its stream at which the seeds of the estimators are drawn
fit_position(n_fits, n_estimators) == 0

\* seeds[i] of the i-th estimator, drawn from the generator of the fit
estimator_seed(f, i) ==
    draw(f.random_state, fit_position(f.n_fits, f.n_estimators) + i - 1)

\* the integer random_state the i-th tree is given, drawn from a generator
\* made of seeds[i]
tree_random_state(f, i) == draw(estimator_seed(f, i), 0)

\* the samples of the bootstrap of the i-th tree, drawn with replacement from a
\* generator made of seeds[i]
bootstrap(f, i) ==
    {(draw(estimator_seed(f, i), k - 1) % Len(f.y)) + 1 : k \in 1..Len(f.y)}

\* the arguments the builder of a tree of the forest is made with: the
\* estimator_params of the forest are set on the tree, which makes its
\* builder from them
forest_builder_args(f) ==
    [n_shapelets |-> IF f.kind = "ShapeletForestEmbedding" THEN 1 ELSE NShapelets,
     max_depth |-> max_depth_or_default(f.max_depth),
     min_samples_split |-> DefaultMinSamplesSplit,
     builder |-> CASE f.kind = "ShapeletForestEmbedding" ->
                        "ExtraRegressionShapeletTreeBuilder"
                   [] f.kind = "ShapeletForestRegressor" ->
                        "RegressionShapeletTreeBuilder"
                   [] OTHER -> "ClassificationShapeletTreeBuilder"]

\* mutant: every tree draws from the generator of the first tree
stream_of_shared(i) == 1

\* the random stream the i-th tree draws from: its own generator, made of
\* its integer random_state when its builder is made
stream_of(i) == i

\* the trees of the jobs: n_estimators are spread over min(n_jobs,
\* n_estimators) jobs in consecutive runs, the first jobs taking one more
_partition_estimators(n_estimators, n_jobs) ==
    LET jobs == Min(n_jobs, n_estimators)
        size(j) == (n_estimators \div jobs) + (IF j <= n_estimators % jobs THEN 1 ELSE 0)
        starts == [j \in 1..jobs |->
                     (j - 1) * (n_estimators \div jobs) + Min(j - 1, n_estimators % jobs)]
    IN  [j \in 1..jobs |-> [k \in 1..size(j) |-> starts[j] + k]]

----------------------------------------------------------------------------
(* Inputs *)

\* one distance profile per series, of the given lengths, over the distances DV
RECURSIVE ProfilesFor(_, _)
ProfilesFor(lens, DV) ==
    IF lens = <<>>
    THEN {<<>>}
    ELSE {<<h>> \o r : h \in [1..Head(lens) -> DV], r \in ProfilesFor(Tail(lens), DV)}

\* the number of placements of a query of length m in a series of x
Placements(x, m) == Last(x) - m + 1

\* The series domain: one series and one query with every distance profile,
\* every threshold, exclusion zone and max_matches.
SeriesShapes == {<<1, t>> : t \in 1..MaxMatchTimestep}
SeriesQueries == {<<m>> : m \in 1..MaxMatchTimestep}
SeriesDims == {DimInt(0)}
SeriesDists == 0..MaxDist
SeriesTies == {"first", "last"}
Thresholds == {None, Callable, OtherType} \cup {Num(d) : d \in 0..MaxDist}
MaxMatchesArgs == {None} \cup {Num(k) : k \in 0..MaxMatches}
Excludes == {NoExclude, ExFloat(1, 2)} \cup {ExInt(e) : e \in (-1)..MaxExclude}

\* The shape domain: every array shape, query list and dim, with one flat
\* distance profile.
ArrayShapes == Shapes(MaxSamples, MaxDims, MaxTimestep)
\* paired_subsequence_match takes a 2-D or 3-D x
SampleShapes == ArrayShapes \ Shapes1(MaxTimestep)
ArrayQueries == QueryLists(MaxSamples, MaxTimestep + 1)
ArrayDims == {DimInt(k) : k \in (-1)..MaxDims}
FlatDists == {0}
FlatTies == {"first"}
DimArgs == {DimWarn, DimMean, DimFull} \cup ArrayDims

\* The matrix profile domain: one series joined with itself or with an array
\* of one series, with every window and exclusion zone.
ProfileShapes == {<<t>> : t \in 1..MaxProfileTimestep}
                     \cup {<<1, t>> : t \in 1..MaxProfileTimestep}
Windows == {ExInt(w) : w \in 0..(MaxProfileTimestep + 1)}
               \cup {ExFloat(0, 1), ExFloat(1, 2), ExFloat(1, 1), ExFloat(3, 2)}
ProfileExcludes == {NoExclude, ExFloat(0 - 1, 2), ExFloat(0, 1), ExFloat(1, 5),
                    ExFloat(1, 2), ExFloat(1, 1)}
                       \cup {ExInt(e) : e \in 0..MaxExclude}
\* The shape domain of the matrix profile: every pair of array shapes, with
\* the window 1 and the default exclusion zone.
JoinShapes == {NoArray} \cup ArrayShapes

----------------------------------------------------------------------------
(* Actions: one call of one function *)

Init ==
    /\ call = NoCall
    /\ ret = NoReturn
    /\ locals = NoLocals
    /\ invoked = FALSE
    /\ tie = "first"
    /\ forest = NoForest
    /\ workers = <<>>
    /\ streams = <<>>
    /\ estimators = <<>>
    /\ prev = <<>>
    /\ tree = NoEstimator

Finish(c, r, t) ==
    /\ call' = c
    /\ ret' = r.ret
    /\ locals' = r.locals
    /\ invoked' = r.invoked
    /\ tie' = t
    /\ UNCHANGED <<fvars, tvars>>

SubsequenceMatch(XS, YS, THS, DIMS, MMS, EXS, DV, TS) ==
    /\ call.fn = "none"
    /\ \E x \in XS, y \in YS, threshold \in THS, dim \in DIMS,
          max_matches \in MMS, exclude \in EXS, t \in TS :
        LET ok == subsequence_match(y, x, threshold, dim, max_matches,
                                    exclude, <<>>, t).invoked
        IN  \E profiles \in IF ok
                            THEN ProfilesFor([s \in 1..n_series(x) |-> Placements(x, y[1])], DV)
                            ELSE {<<>>} :
                Finish([fn |-> "subsequence_match", y |-> y, x |-> x,
                        threshold |-> threshold, dim |-> dim,
                        max_matches |-> max_matches, exclude |-> exclude,
                        profiles |-> profiles],
                       subsequence_match(y, x, threshold, dim, max_matches,
                                         exclude, profiles, t),
                       t)

PairedSubsequenceMatch(XS, YS, THS, DIMS, MMS, DV, TS) ==
    /\ call.fn = "none"
    /\ \E x \in XS, y \in YS, threshold \in THS, dim \in DIMS,
          max_matches \in MMS, t \in TS :
        LET ok == paired_subsequence_match(y, x, threshold, dim, max_matches,
                                           <<>>, t).invoked
        IN  \E profiles \in IF ok
                            THEN ProfilesFor([s \in 1..Len(y) |-> Placements(x, y[s])], DV)
                            ELSE {<<>>} :
                Finish([fn |-> "paired_subsequence_match", y |-> y, x |-> x,
                        threshold |-> threshold, dim |-> dim,
                        max_matches |-> max_matches, exclude |-> NoExclude,
                        profiles |-> profiles],
                       paired_subsequence_match(y, x, threshold, dim, max_matches,
                                                profiles, t),
                       t)

PairwiseSubsequenceDistance(XS, YS, DIMS, DV) ==
    /\ call.fn = "none"
    /\ \E x \in XS, y \in YS, dim \in DIMS :
        LET ok == pairwise_subsequence_distance(y, x, dim, <<>>).invoked
        IN  \E profiles \in IF ok
                            THEN [1..n_series(x) ->
                                    ProfilesFor([j \in 1..Len(y) |-> Placements(x, y[j])], DV)]
                            ELSE {<<>>} :
                Finish([fn |-> "pairwise_subsequence_distance", y |-> y, x |-> x,
                        dim |-> dim, profile_matrix |-> profiles],
                       pairwise_subsequence_distance(y, x, dim, profiles),
                       "first")

PairedSubsequenceDistance(XS, YS, DIMS, DV) ==
    /\ call.fn = "none"
    /\ \E x \in XS, y \in YS, dim \in DIMS :
        LET ok == paired_subsequence_distance(y, x, dim, <<>>).invoked
        IN  \E profiles \in IF ok
                            THEN ProfilesFor([s \in 1..Len(y) |-> Placements(x, y[s])], DV)
                            ELSE {<<>>} :
                Finish([fn |-> "paired_subsequence_distance", y |-> y, x |-> x,
                        dim |-> dim, profiles |-> profiles],
                       paired_subsequence_distance(y, x, dim, profiles),
                       "first")

PairedDistance ==
    /\ call.fn = "none"
    /\ \E x \in ArrayShapes, y \in ArrayShapes, dim \in DimArgs, metric \in Metrics :
        Finish([fn |-> "paired_distance", x |-> x, y |-> y, dim |-> dim,
                metric |-> metric],
               paired_distance(x, y, dim, metric), "first")

PairwiseDistance ==
    /\ call.fn = "none"
    /\ \E x \in ArrayShapes, y \in ArrayShapes, dim \in DimArgs, metric \in Metrics :
        Finish([fn |-> "pairwise_distance", x |-> x, y |-> y, dim |-> dim,
                metric |-> metric],
               pairwise_distance(x, y, dim, metric), "first")

SingletonPairwiseDistance ==
    /\ call.fn = "none"
    /\ \E x \in ArrayShapes, dim \in DimArgs, metric \in Metrics :
        Finish([fn |-> "singleton_pairwise_distance", x |-> x, y |-> x,
                dim |-> dim, metric |-> metric],
               singleton_pairwise_distance(x, dim, metric), "first")

MatrixProfile(XS, YS, WS, DIMS, EXS) ==
    /\ call.fn = "none"
    /\ \E x \in XS, y \in YS, window \in WS, dim \in DIMS, exclude \in EXS :
        LET pre == matrix_profile(x, y, window, dim, exclude, <<>>)
        IN  \E mpi \in IF pre.invoked
                        THEN _paired_matrix_profile(x, IF y = NoArray \/ ndim(x) > 1 THEN x ELSE y,
                                 pre.locals.window.v, pre.locals.exclude.v, y = NoArray)
                        ELSE {<<>>} :
                Finish([fn |-> "matrix_profile", x |-> x, y |-> y, window |-> window,
                        dim |-> dim, exclude |-> exclude],
                       matrix_profile(x, y, window, dim, exclude, mpi),
                       "first")

\* the caller takes the result (or handles the exception); the next call starts
\* from the same state
NextCall ==
    /\ call.fn # "none"
    /\ call' = NoCall
    /\ ret' = NoReturn
    /\ locals' = NoLocals
    /\ invoked' = FALSE
    /\ tie' = "first"
    /\ UNCHANGED <<fvars, tvars>>

Next ==
    \/ SubsequenceMatch(SeriesShapes, SeriesQueries, Thresholds, SeriesDims,
                        MaxMatchesArgs, Excludes, SeriesDists, SeriesTies)
    \/ SubsequenceMatch(ArrayShapes, ArrayQueries, {Num(0)}, ArrayDims,
                        {None}, {NoExclude}, FlatDists, FlatTies)
    \/ PairedSubsequenceMatch(SeriesShapes, SeriesQueries, Thresholds, SeriesDims,
                              MaxMatchesArgs, SeriesDists, SeriesTies)
    \/ PairedSubsequenceMatch(SampleShapes, ArrayQueries, {Num(0)}, ArrayDims,
                              {None}, FlatDists, FlatTies)
    \/ PairwiseSubsequenceDistance(SeriesShapes, SeriesQueries, SeriesDims, SeriesDists)
    \/ PairwiseSubsequenceDistance(ArrayShapes, ArrayQueries, ArrayDims, FlatDists)
    \/ PairedSubsequenceDistance(SeriesShapes, SeriesQueries, SeriesDims, SeriesDists)
    \/ PairedSubsequenceDistance(ArrayShapes, ArrayQueries, ArrayDims, FlatDists)
    \/ MatrixProfile(ProfileShapes, {NoArray} \cup ProfileShapes, Windows,
                     SeriesDims, ProfileExcludes)
    \/ MatrixProfile(ArrayShapes, JoinShapes, {ExInt(1)}, ArrayDims, {NoExclude})
    \/ PairedDistance
    \/ PairwiseDistance
    \/ SingletonPairwiseDistance
    \/ NextCall

Spec == Init /\ [][Next]_vars

----------------------------------------------------------------------------
(* Actions: a forest is made, fitted by concurrent jobs and fitted again *)

\* The forest domain: every training set of two classes, integer
\* random_state, number of estimators and of jobs, with and without max_depth.
TrainLabels == UNION {[1..n -> 0..1] : n \in 2..MaxTrainSamples}
RandomStates == 0..MaxSeed
MaxDepths == {None, Num(1)}

\* ShapeletForestClassifier(...), ShapeletForestRegressor(...)
NewForest ==
    /\ forest.phase = "none"
    /\ \E kind \in ForestKinds, random_state \in RandomStates,
          n_estimators \in 1..MaxEstimators, n_jobs \in 1..MaxJobs,
          max_depth \in MaxDepths :
        forest' = [NoForest EXCEPT !.phase = "new", !.kind = kind,
                                   !.estimator_params = estimator_params(kind),
                                   !.random_state = random_state,
                                   !.n_estimators = n_estimators,
                                   !.n_jobs = n_jobs, !.max_depth = max_depth]
    /\ UNCHANGED <<workers, streams, estimators, prev>>
    /\ UNCHANGED <<cvars, tvars>>

\* the dispatch of the jobs of a fit
Dispatch(f) ==
    /\ forest' = f
    /\ workers' = [j \in DOMAIN _partition_estimators(f.n_estimators, f.n_jobs) |->
                      [todo |-> _partition_estimators(f.n_estimators, f.n_jobs)[j],
                       cur |-> 0, tb |-> NoBuilder]]
    /\ streams' = [i \in 1..f.n_estimators |-> 0]
    /\ estimators' = [i \in 1..f.n_estimators |-> NoTree]

\* fit(x, y) of a forest classifier that has not been fitted
Fit ==
    /\ forest.phase = "new"
    /\ forest.kind = "ShapeletForestClassifier"
    /\ \E y \in TrainLabels :
        Dispatch([forest EXCEPT !.phase = "building", !.y = y, !.y_given = y])
    /\ UNCHANGED prev
    /\ UNCHANGED <<cvars, tvars>>

\* fit(x, y) of a fitted forest with the same training set, after n_jobs was
\* set anew
Refit ==
    /\ forest.phase = "fitted"
    /\ forest.n_fits = 1
    /\ \E n_jobs \in 1..MaxJobs :
        Dispatch([forest EXCEPT !.phase = "building", !.n_jobs = n_jobs])
    /\ prev' = estimators
    /\ UNCHANGED <<cvars, tvars>>

\* a job makes the next tree of its run: the estimator with its random_state
\* and its bootstrap sample
StartTree(w) ==
    /\ forest.phase = "building"
    /\ workers[w].cur = 0
    /\ workers[w].todo # <<>>
    /\ workers' = [workers EXCEPT
                      ![w] = [todo |-> Tail(workers[w].todo),
                              cur |-> Head(workers[w].todo),
                              tb |-> new_builder(bootstrap(forest, Head(workers[w].todo)))]]
    /\ UNCHANGED <<forest, streams, estimators, prev>>
    /\ UNCHANGED <<cvars, tvars>>

\* a job builds the next node of its tree, drawing from the tree's stream
BuildNode(w) ==
    /\ forest.phase = "building"
    /\ workers[w].cur # 0
    /\ workers[w].tb.stack # <<>>
    /\ LET sid == stream_of(workers[w].cur)
           r == build_node(workers[w].tb, forest.y,
                           forest_builder_args(forest),
                           tree_random_state(forest, sid), streams[sid])
       IN  /\ workers' = [workers EXCEPT ![w].tb = r.tb]
           /\ streams' = [streams EXCEPT ![sid] = r.counter]
    /\ UNCHANGED <<forest, estimators, prev>>
    /\ UNCHANGED <<cvars, tvars>>

\* a job has built its tree
FinishTree(w) ==
    /\ forest.phase = "building"
    /\ workers[w].cur # 0
    /\ workers[w].tb.stack = <<>>
    /\ estimators' = [estimators EXCEPT ![workers[w].cur] = tree_of(workers[w].tb)]
    /\ workers' = [workers EXCEPT ![w].cur = 0, ![w].tb = NoBuilder]
    /\ UNCHANGED <<forest, streams, prev>>
    /\ UNCHANGED <<cvars, tvars>>

\* all jobs are done: fit returns
Join ==
    /\ forest.phase = "building"
    /\ \A w \in DOMAIN workers : workers[w].cur = 0 /\ workers[w].todo = <<>>
    /\ forest' = [forest EXCEPT !.phase = "fitted", !.n_fits = forest.n_fits + 1]
    /\ UNCHANGED <<workers, streams, estimators, prev>>
    /\ UNCHANGED <<cvars, tvars>>

ForestNext ==
    \/ NewForest
    \/ Fit
    \/ Refit
    \/ \E w \in DOMAIN workers : StartTree(w)
    \/ \E w \in DOMAIN workers : BuildNode(w)
    \/ \E w \in DOMAIN workers : FinishTree(w)
    \/ Join

ForestSpec == Init /\ [][ForestNext]_vars

----------------------------------------------------------------------------
(* Actions: a forest regressor is made and fitted *)

\* real-valued targets of training sets of two samples and more
TrainTargets == UNION {[1..n -> 0..MaxTarget] : n \in 2..MaxRegSamples}

\* ShapeletForestRegressor(...), ShapeletForestEmbedding(...)
NewRegressor ==
    /\ forest.phase = "none"
    /\ \E kind \in RegressorKinds, random_state \in RandomStates,
          n_estimators \in 1..MaxEstimators :
        forest' = [NoForest EXCEPT !.phase = "new", !.kind = kind,
                                   !.estimator_params = estimator_params(kind),
                                   !.random_state = random_state,
                                   !.n_estimators = n_estimators,
                                   !.n_jobs = 1]
    /\ UNCHANGED <<workers, streams, estimators, prev>>
    /\ UNCHANGED <<cvars, tvars>>

\* BaseForestRegressor.fit(x, y) with the default check_input=True
BaseForestRegressor_fit(f, y) ==
    Dispatch([f EXCEPT !.phase = "building", !.y = check_array_int(y),
                       !.y_given = y])

\* fit(x, y) of a ShapeletForestRegressor
FitRegressor ==
    /\ forest.phase = "new"
    /\ forest.kind = "ShapeletForestRegressor"
    /\ \E y \in TrainTargets : BaseForestRegressor_fit(forest, y)
    /\ UNCHANGED prev
    /\ UNCHANGED <<cvars, tvars>>

\* fit_transform(x) of a ShapeletForestEmbedding: the targets are random
FitEmbedding ==
    /\ forest.phase = "new"
    /\ forest.kind = "ShapeletForestEmbedding"
    /\ \E n \in 2..MaxRegSamples :
        BaseForestRegressor_fit(forest, uniform(forest.random_state, n))
    /\ UNCHANGED prev
    /\ UNCHANGED <<cvars, tvars>>

\* the forest is dropped
DropForest ==
    /\ forest.phase = "fitted"
    /\ forest' = NoForest
    /\ workers' = <<>>
    /\ streams' = <<>>
    /\ estimators' = <<>>
    /\ UNCHANGED prev
    /\ UNCHANGED <<cvars, tvars>>

RegressorNext ==
    \/ NewRegressor
    \/ FitRegressor
    \/ FitEmbedding
    \/ \E w \in DOMAIN workers : StartTree(w)
    \/ \E w \in DOMAIN workers : BuildNode(w)
    \/ \E w \in DOMAIN workers : FinishTree(w)
    \/ Join
    \/ DropForest

RegressorSpec == Init /\ [][RegressorNext]_vars

----------------------------------------------------------------------------
(* Actions: calls of the variable-length utilities *)

\* one series of every length and value
VarSeries(V) == UNION {[1..t -> V] : t \in 1..MaxVarLen}

\* arrays of series of equal length: a series, a list of series one value
\* shorter, and the lists as the samples of one dimension or as the
\* dimensions of one sample
VarRows == UNION {[1..n -> [1..t -> {Ordinary, eos}]] :
                     n \in 1..MaxVarSamples, t \in 1..(MaxVarLen - 1)}
VarArrays1 == {Array(1, q) : q \in VarSeries({Ordinary, NaN, eos})}
VarArrays2 == {Array(2, rows) : rows \in VarRows}
VarArrays3 ==
    {Array(3, [i \in DOMAIN rows |-> <<rows[i]>>]) : rows \in VarRows}
        \cup {Array(3, <<rows>>) : rows \in VarRows}
NShortest == {Num(n) : n \in 0..(MaxVarLen + 1)}

GetVariableLength(XS) ==
    /\ call.fn = "none"
    /\ \E x \in XS :
        Finish([fn |-> "get_variable_length", x |-> x],
               UtilReturn(get_variable_length(x)), "first")

Truncate(XS, NS) ==
    /\ call.fn = "none"
    /\ \E x \in XS, n_shortest \in NS :
        Finish([fn |-> "truncate", x |-> x, n_shortest |-> n_shortest],
               truncate(x, n_shortest), "first")

\* a fitted forest and the shapes of the arrays its apply is given
FittedForests ==
    [n_dims_ : 1..MaxDims, n_timestep_ : 1..MaxTimestep,
     attributes : {fitted_attributes}]
PredictShapes ==
    Shapes2(MaxSamples, MaxTimestep) \cup Shapes3(MaxSamples, MaxDims, MaxTimestep)

ForestApply(FS, XS) ==
    /\ call.fn = "none"
    /\ \E self \in FS, x \in XS :
        Finish([fn |-> "forest_apply", self |-> self, x |-> x],
               forest_apply(self, x), "first")

\* the labels of the counterfactuals and the keyword arguments
Labels == 0..1
LabelLists == UNION {[1..n -> Labels] : n \in 1..MaxSamples}
Scorings == {Deprecated, None, Metric}
ValidScorings == {Deprecated, Bool(TRUE), Bool(FALSE)}
Proximities == {None, Metric}

Counterfactuals(PS, SCS, VSS, PXS) ==
    /\ call.fn = "none"
    /\ \E predicted \in PS, scoring \in SCS, valid_scoring \in VSS, proximity \in PXS :
       \E y \in [DOMAIN predicted -> Labels] :
        Finish([fn |-> "counterfactuals", predicted |-> predicted, y |-> y,
                scoring |-> scoring, valid_scoring |-> valid_scoring,
                proximity |-> proximity],
               counterfactuals(predicted, y, scoring, valid_scoring, proximity),
               "first")

UtilNext ==
    \/ GetVariableLength(VarArrays1 \cup VarArrays2 \cup VarArrays3)
    \/ Truncate(VarArrays2 \cup VarArrays3, {None})
    \/ Truncate({Array(2, <<q>>) : q \in VarSeries({Ordinary, eos})}, NShortest)
    \/ ForestApply(FittedForests, PredictShapes)
    \/ Counterfactuals(LabelLists, Scorings, ValidScorings, Proximities)
    \/ NextCall

UtilSpec == Init /\ [][UtilNext]_vars

----------------------------------------------------------------------------
(* Actions: a tree estimator is made, changed and fitted on its own *)

TreeDepths == {None} \cup {Num(d) : d \in 0..MaxTreeDepth}
DefaultSizes == <<0, SizeDen>>
TreeSizes == ((0 - 1)..(SizeDen + 1)) \X ((0 - 1)..(SizeDen + 1))
TreeTimesteps == 1..MaxTreeTimestep

\* ShapeletTreeClassifier(...), ExtraShapeletTreeClassifier(...),
\* ShapeletTreeRegressor(...), ExtraShapeletTreeRegressor(...)
NewTree(KS, DS, SS, RS) ==
    /\ tree.phase = "none"
    /\ \E kind \in KS, max_depth \in DS, sizes \in SS, random_state \in RS :
        tree' = BaseShapeletTree(kind, max_depth, NShapelets, sizes[1], sizes[2],
                                 random_state)
    /\ UNCHANGED <<cvars, fvars>>

\* tree.n_shapelets = n
SetNShapelets ==
    /\ tree.phase = "new"
    /\ \E n \in 1..NShapelets :
        /\ n # tree.n_shapelets
        /\ tree' = [tree EXCEPT !.n_shapelets = n]
    /\ UNCHANGED <<cvars, fvars>>

\* fit(x, y) up to the making of the builder, which holds the root with all
\* samples. What the compiled builder does when it cannot sample a shapelet
\* is not in the source: the model stops there.
TreeFit(YS, TS) ==
    /\ tree.phase = "new"
    /\ \E y \in YS, n_timestep \in TS :
        LET args == _make_tree_builder(tree, n_timestep)
        IN  tree' = [tree EXCEPT
                        !.phase = IF can_sample(args, n_timestep) THEN "building"
                                  ELSE "undefined",
                        !.n_timestep_ = n_timestep, !.y = y, !.args = args,
                        !.tb = new_builder(1..Len(y))]
    /\ UNCHANGED <<cvars, fvars>>

\* build_tree(): the node on top of the stack is built
TreeBuildNode ==
    /\ tree.phase = "building"
    /\ tree.tb.stack # <<>>
    /\ LET r == build_node(tree.tb, tree.y, tree.args, tree.random_state, tree.counter)
       IN  tree' = [tree EXCEPT !.tb = r.tb, !.counter = r.counter]
    /\ UNCHANGED <<cvars, fvars>>

\* build_tree() returns: self.tree_ = tree_builder.tree_
TreeFinish ==
    /\ tree.phase = "building"
    /\ tree.tb.stack = <<>>
    /\ tree' = [tree EXCEPT !.phase = "fitted", !.tree_ = tree_of(tree.tb)]
    /\ UNCHANGED <<cvars, fvars>>

\* apply(x) of the fitted tree to its training set
TreeApply ==
    /\ tree.phase = "fitted"
    /\ tree' = [tree EXCEPT !.phase = "applied",
                            !.leaf_id = apply(tree.tree_, 1..Len(tree.y))]
    /\ UNCHANGED <<cvars, fvars>>

\* the estimator is dropped
TreeDiscard ==
    /\ tree.phase \in {"raised", "undefined", "fitted", "applied"}
    /\ tree' = NoEstimator
    /\ UNCHANGED <<cvars, fvars>>

TreeNext ==
    \/ NewTree(TreeKinds, TreeDepths, {DefaultSizes}, RandomStates)
    \/ NewTree({"ShapeletTreeClassifier"}, {None}, TreeSizes, {0})
    \/ SetNShapelets
    \/ TreeFit(TrainLabels, {MaxTreeTimestep})
    \/ TreeFit({<<0, 1>>}, TreeTimesteps)
    \/ TreeBuildNode
    \/ TreeFinish
    \/ TreeApply
    \/ TreeDiscard

TreeSpec == Init /\ [][TreeNext]_vars

\* TreeBuildNode is enabled
CanBuild == tree.phase = "building" /\ tree.tb.stack # <<>>

\* build_tree() is one call that is not interrupted: a node that can be
\* built is built, and a finished build returns. The first condition is
\* WF_vars(TreeBuildNode) with its ENABLED written out.
TreeFairSpec ==
    /\ Init /\ [][TreeNext]_vars
    /\ ([]<>(~CanBuild) \/ []<><<TreeBuildNode>>_vars)
    /\ WF_vars(TreeFinish)

----------------------------------------------------------------------------
(* Vocabulary of the properties *)


\* the (start index, distance) pairs of a match set
PairsOf(m) == {<<m.index[k], m.distance[k]>> : k \in 1..Len(m.index)}

MatchCall == call.fn \in {"subsequence_match", "paired_subsequence_match"}
Returned == ret.status = "ok"
Raised == ret.status \in {"ValueError", "TypeError", "IndexError"}

\* the exclusion zone the call asked for: an int as given, a float as
\* ceil(fraction * query length)
AskedZone(e) ==
    IF call.exclude.kind = "int"
    THEN e = call.exclude.v
    ELSE /\ e * call.exclude.den >= call.y[1] * call.exclude.v
         /\ (e - 1) * call.exclude.den < call.y[1] * call.exclude.v

----------------------------------------------------------------------------
(* C1: when subsequence_match returns under an exclusion zone exclude >= 1  *)
(* (an int, or a float converted to ceil(fraction * query length)), any two *)
(* start indices returned for one series differ by at least exclude.        *)
C1_ExclusionZoneRespected ==
    (call.fn = "subsequence_match" /\ Returned /\ call.exclude.kind # "none"
        /\ (call.exclude.kind = "int" => call.exclude.v >= 1))
    => /\ locals.exclude.kind = "num"
       /\ AskedZone(locals.exclude.v)
       /\ locals.exclude.v >= 1 =>
            \A s \in 1..Len(ret.value.matches) :
                \A i, j \in 1..Len(ret.value.matches[s].index) :
                    i # j => Abs(ret.value.matches[s].index[i] - ret.value.matches[s].index[j])
                                >= locals.exclude.v

\* a call with exclude >= 2 that returned two matches and suppressed a third
C1_Witness ==
    /\ call.fn = "subsequence_match" /\ Returned
    /\ call.exclude.kind = "int" /\ call.exclude.v >= 2
    /\ Len(ret.value.matches[1].index) >= 2
    /\ Len(locals.matched[1].index) > Len(locals.kept[1].index)

(* C2: trivial-match suppression prefers the lower distance: a placement    *)
(* that passed the threshold is dropped only if a kept placement with       *)
(* distance <= its own lies fewer than exclude positions away, and a        *)
(* placement of minimum distance is always kept.                            *)
C2_SuppressionPrefersLowerDistance ==
    (call.fn = "subsequence_match" /\ Returned /\ Truthy(locals.exclude))
    => \A s \in 1..Len(locals.matched) :
        LET passed == PairsOf(locals.matched[s])
            kept == PairsOf(locals.kept[s])
        IN  /\ kept \subseteq passed
            /\ \A p \in passed \ kept :
                \E q \in kept : /\ q[2] <= p[2]
                                /\ Abs(q[1] - p[1]) < locals.exclude.v
            /\ passed # {} =>
                \E q \in kept : \A p \in passed : q[2] <= p[2]
            /\ ~Truthy(locals.max_matches) => PairsOf(ret.value.matches[s]) = kept

\* a later placement of lower distance suppressed an earlier one
C2_Witness ==
    /\ call.fn = "subsequence_match" /\ Returned /\ Truthy(locals.exclude)
    /\ \E p \in PairsOf(locals.matched[1]) \ PairsOf(locals.kept[1]) :
        \E q \in PairsOf(locals.kept[1]) :
            q[1] > p[1] /\ q[2] < p[2] /\ Abs(q[1] - p[1]) < locals.exclude.v

(* C3: with max_matches = k set, the result of subsequence_match for each   *)
(* series is exactly the k smallest-distance placements among those that    *)
(* survived the threshold filter and then the suppression (all of them if   *)
(* fewer than k), so it never holds more than k matches.                    *)
C3_TopKAfterSuppression ==
    (call.fn = "subsequence_match" /\ Returned /\ call.max_matches.kind = "num")
    => \A s \in 1..Len(ret.value.matches) :
        LET kept == PairsOf(locals.kept[s])
            out == PairsOf(ret.value.matches[s])
        IN  /\ out \subseteq kept
            /\ Cardinality(out) = Min(call.max_matches.v, Cardinality(kept))
            /\ \A r \in out : \A o \in kept \ out : r[2] <= o[2]

(* C4: without a threshold the match functions use threshold = +infinity    *)
(* and max_matches defaults to 10, an explicit max_matches being kept; with *)
(* a threshold and no max_matches, no limit is applied.                     *)
C4_DefaultPolicy ==
    (MatchCall /\ Returned)
    => /\ call.threshold.kind = "none" =>
            /\ locals.threshold = Inf
            /\ \A s \in 1..Len(locals.matched) :
                Len(locals.matched[s].index) = Len(call.profiles[s])
            /\ call.max_matches.kind = "none" =>
                    locals.max_matches = Num(DefaultMaxMatches)
            /\ call.max_matches.kind # "none" =>
                    locals.max_matches = call.max_matches
       /\ (call.threshold.kind # "none" /\ call.max_matches.kind = "none") =>
            /\ locals.max_matches = None
            /\ ret.value.matches = locals.kept

\* a call without threshold and max_matches that ranked several placements
C4_Witness ==
    /\ MatchCall /\ Returned
    /\ call.threshold.kind = "none" /\ call.max_matches.kind = "none"
    /\ locals.max_matches = Num(DefaultMaxMatches)
    /\ Len(ret.value.matches[1].index) >= 2

(* C5 (as claimed): paired_subsequence_match applies the pipeline of        *)
(* subsequence_match, trivial-match suppression included, so for one query  *)
(* and one series it returns what subsequence_match returns for the same    *)
(* threshold, exclude and max_matches.                                      *)
SinglePair ==
    call.fn = "paired_subsequence_match" /\ Len(call.y) = 1 /\ call.x[1] = 1

SameAsSubsequenceMatch(exclude) ==
    LET r == subsequence_match(call.y, call.x, call.threshold, call.dim,
                               call.max_matches, exclude, call.profiles, tie)
    IN  r.ret.status = ret.status /\ r.ret.value = ret.value

C5_PairedSamePipeline ==
    (SinglePair /\ Returned)
    => \A exclude \in {e \in Excludes : ~exclude_invalid(e)} :
            SameAsSubsequenceMatch(exclude)

(* C5 (amended): paired_subsequence_match applies the threshold filter and  *)
(* then max_matches, without trivial-match suppression (it takes no exclude *)
(* argument); for one query and one series it returns what                  *)
(* subsequence_match returns for the same threshold and max_matches when no *)
(* exclusion zone is in force (exclude None or 0).                          *)
C5_PairedSamePipelineNoExclude ==
    SinglePair
    => /\ SameAsSubsequenceMatch(NoExclude)
       /\ SameAsSubsequenceMatch(ExInt(0))
       /\ Returned => locals.kept = locals.matched

\* a single pair whose threshold rejected a placement and whose max_matches
\* cut the rest
C5_Witness ==
    /\ SinglePair /\ Returned
    /\ Len(locals.matched[1].index) < Len(call.profiles[1])
    /\ Len(ret.value.matches[1].index) < Len(locals.matched[1].index)

(* C6: paired_subsequence_distance, subsequence_match and                   *)
(* paired_subsequence_match raise ValueError exactly when dim lies outside  *)
(* [0, n_dims): every dim with 0 <= dim < n_dims passes the dim check and   *)
(* every other dim is rejected.                                             *)
C6_DimValidated ==
    call.fn \in {"paired_subsequence_distance", "subsequence_match",
                 "paired_subsequence_match"}
    => IF 0 <= call.dim.v /\ call.dim.v < n_dims(call.x)
       THEN ret.err # "dim"
       ELSE ret.status = "ValueError"

(* C7: pairwise_distance and paired_distance raise a shape error, before    *)
(* any distance is computed, whenever x and y have different numbers of     *)
(* timesteps and the metric is not elastic.                                 *)
C7_LockStepLengthMismatchRejected ==
    (call.fn \in {"pairwise_distance", "paired_distance"}
        /\ Last(call.x) # Last(call.y) /\ call.metric = "euclidean")
    => Raised /\ ~invoked

(* C8: with an elastic metric pairwise_distance and paired_distance accept  *)
(* x and y of different numbers of timesteps (the arrays being otherwise    *)
(* compatible and dim valid) and return distances.                          *)
C8_ElasticLengthMismatchAccepted ==
    (call.fn \in {"pairwise_distance", "paired_distance"}
        /\ call.metric = "dtw" /\ Last(call.x) # Last(call.y)
        /\ Len(call.x) = Len(call.y)
        /\ (\A k \in 1..(Len(call.x) - 1) : call.x[k] = call.y[k])
        /\ call.dim = DimInt(0))
    => Returned /\ invoked

(* C9: the paired operations raise an error, before any distance is         *)
(* computed, whenever their two inputs have different sample counts.        *)
C9_SampleCountMismatchRejected ==
    LET differ ==
        CASE call.fn \in {"paired_subsequence_distance", "paired_subsequence_match"}
                -> Len(call.y) # n_series(call.x)
          [] call.fn = "paired_distance"
                -> n_series(call.x) # n_series(call.y)
          [] OTHER -> FALSE
    IN  differ => Raised /\ ~invoked

----------------------------------------------------------------------------
(* The matrix profile *)

MatrixProfileCall == call.fn = "matrix_profile"
SelfJoin == MatrixProfileCall /\ call.y = NoArray
CrossJoin == MatrixProfileCall /\ call.y # NoArray

\* y has the number of samples and of dimensions of x
SameSamplesAndDims(x, y) ==
    /\ ndim(x) = ndim(y)
    /\ n_series(x) = n_series(y)
    /\ n_dims(x) = n_dims(y)

\* C11: in a cross-join, a y with the number of samples and dimensions of x is
\* rejected with ValueError when it has more timesteps than x, and is never
\* rejected on account of y when it has at most as many timesteps as x (a
\* strictly shorter y included): such a call fails only for its dim, window or
\* exclude.
C11_CrossJoinAcceptsShorterY ==
    (CrossJoin /\ SameSamplesAndDims(call.x, call.y)) =>
        /\ Last(call.y) > Last(call.x) => ret.status = "ValueError"
        /\ Last(call.y) <= Last(call.x) =>
               (Returned \/ ret.err \in {"dim", "window", "exclude"})

\* the exclusion radius a call asks for: the given number of timesteps, the
\* given fraction of the window rounded up, or by default a fifth of the
\* window rounded up in a self-join and 0 in a cross-join
AskedRadius ==
    IF call.exclude.kind = "int" THEN call.exclude.v
    ELSE IF call.exclude.kind = "float"
    THEN Ceil(locals.window.v * call.exclude.v, call.exclude.den)
    ELSE IF call.y = NoArray THEN Ceil(locals.window.v, 5) ELSE 0

C13_DefaultExclusionRadius ==
    (MatrixProfileCall /\ Returned) =>
        /\ locals.exclude.v = AskedRadius
        /\ (SelfJoin /\ call.exclude = NoExclude) => locals.exclude.v = Ceil(locals.window.v, 5)
        /\ (CrossJoin /\ call.exclude = NoExclude) => locals.exclude.v = 0

\* a cross-join without an exclude argument returns
C13_Witness ==
    /\ CrossJoin /\ Returned /\ call.exclude = NoExclude
    /\ locals.window.v > 1 /\ locals.exclude.v = 0

----------------------------------------------------------------------------
(* The subsequence search and the shape and order of the results *)

\* r is the minimum of the profile and the earliest placement attaining it
EarliestMinimum(r, profile) ==
    /\ r.ind \in 0..(Len(profile) - 1)
    /\ profile[r.ind + 1] = r.dist
    /\ \A p \in 1..Len(profile) : r.dist <= profile[p]
    /\ \A p \in 1..r.ind : profile[p] # r.dist

\* C14: for every query and series, the subsequence distance functions return
\* the minimum distance over the n - m + 1 placements and the smallest start
\* index of a placement attaining it.
C14_SearchEarliestMinimum ==
    /\ (call.fn = "pairwise_subsequence_distance" /\ Returned) =>
           \A i \in 1..Len(ret.value.min_matrix) :
               \A j \in 1..Len(ret.value.min_matrix[i]) :
                   /\ Len(call.profile_matrix[i][j]) = Last(call.x) - call.y[j] + 1
                   /\ EarliestMinimum(ret.value.min_matrix[i][j], call.profile_matrix[i][j])
    /\ (call.fn = "paired_subsequence_distance" /\ Returned) =>
           \A i \in 1..Len(ret.value.min) :
               /\ Len(call.profiles[i]) = Last(call.x) - call.y[i] + 1
               /\ EarliestMinimum(ret.value.min[i], call.profiles[i])

\* the minimum is attained by two placements, neither of them the first, and
\* the earlier one is returned
C14_Witness ==
    /\ call.fn = "pairwise_subsequence_distance" /\ Returned
    /\ Len(call.profile_matrix[1][1]) = 3
    /\ call.profile_matrix[1][1][1] > call.profile_matrix[1][1][2]
    /\ call.profile_matrix[1][1][2] = call.profile_matrix[1][1][3]
    /\ ret.value.min_matrix[1][1].ind = 1

\* C15: pairwise_subsequence_distance returns a scalar for one subsequence and
\* one 1-D series, an array of shape (n_samples,) for one subsequence and a 2-D
\* or 3-D x (for every n_samples >= 1), an array of shape (n_subsequences,)
\* for several subsequences and a 1-D x, and an array of shape
\* (n_samples, n_subsequences) otherwise.
C15_ReturnShape ==
    (call.fn = "pairwise_subsequence_distance" /\ Returned) =>
        LET n == Len(call.y)
            v == ret.value
        IN  IF n = 1 /\ ndim(call.x) = 1 THEN v.scalar
            ELSE IF n = 1 THEN ~v.scalar /\ v.shape = <<call.x[1]>>
            ELSE IF ndim(call.x) = 1 THEN ~v.scalar /\ v.shape = <<n>>
            ELSE ~v.scalar /\ v.shape = <<call.x[1], n>>

Ascending(s) == \A k \in 1..(Len(s) - 1) : s[k] < s[k + 1]
NonDecreasing(s) == \A k \in 1..(Len(s) - 1) : s[k] <= s[k + 1]

\* C16: subsequence_match returns the matches of every series by ascending
\* start index when a threshold is given and max_matches is not, and by
\* ascending distance when no threshold is given or both are given, with and
\* without an exclusion zone.
C16_MatchOrder ==
    (call.fn = "subsequence_match" /\ Returned) =>
        \A s \in 1..Len(ret.value.matches) :
            ret.value.matches[s] # NoneMatch =>
                IF call.threshold # None /\ call.max_matches = None
                THEN Ascending(ret.value.matches[s].index)
                ELSE NonDecreasing(ret.value.matches[s].distance)

----------------------------------------------------------------------------
(* Forests and trees *)

Fitted == forest.phase = "fitted"

\* C17: a forest fitted a second time on the same training set with the same
\* integer random_state has, tree by tree, the same left and right child
\* arrays and the same thresholds as after the first fit.
C17_SameSeedSameForest ==
    (Fitted /\ forest.n_fits = 2) =>
        /\ DOMAIN estimators = DOMAIN prev
        /\ \A i \in DOMAIN estimators :
               /\ estimators[i].left = prev[i].left
               /\ estimators[i].right = prev[i].right
               /\ estimators[i].threshold = prev[i].threshold

\* a forest of two different trees, one of them with a split, fitted twice
C17_Witness ==
    /\ Fitted /\ forest.n_fits = 2
    /\ forest.n_estimators = 2
    /\ estimators[1] # estimators[2]
    /\ Len(estimators[1].left) > 1

\* the forest a single job builds, tree after tree
RECURSIVE SequentialTrees(_, _, _)
SequentialTrees(f, i, strm) ==
    IF i > f.n_estimators THEN <<>>
    ELSE LET sid == stream_of(i)
             r == build_tree(new_builder(bootstrap(f, i)), f.y,
                             forest_builder_args(f),
                             tree_random_state(f, sid), strm[sid])
         IN  <<tree_of(r.tb)>> \o SequentialTrees(f, i + 1, [strm EXCEPT ![sid] = r.counter])

\* C18: whatever the number of jobs and the interleaving of their steps, the
\* fitted forest is, in estimator order, the forest one job builds tree after
\* tree from the master seed.
C18_ForestIndependentOfJobs ==
    Fitted =>
        estimators = SequentialTrees(forest, 1, [i \in 1..forest.n_estimators |-> 0])

\* two jobs have built one tree each, both with splits
C18_Witness ==
    /\ Fitted /\ forest.n_jobs = 2 /\ forest.n_estimators = 2
    /\ Len(estimators[1].left) > 1
    /\ Len(estimators[2].left) > 1
    /\ estimators[1] # estimators[2]

Alpha == "alpha"

\* C19: the estimator_params of a ShapeletForestClassifier and of a
\* ShapeletForestRegressor are exactly max_depth, n_shapelets,
\* min_samples_split, min_samples_leaf, min_impurity_decrease,
\* min_shapelet_size, max_shapelet_size, alpha, metric, metric_params and
\* criterion.
C19_EstimatorParams ==
    forest.kind \in ForestKinds =>
        forest.estimator_params =
            {"max_depth", "n_shapelets", "min_samples_split", "min_samples_leaf",
             "min_impurity_decrease", "min_shapelet_size", "max_shapelet_size",
             Alpha, "metric", "metric_params", "criterion"}

\* the child arrays of a tree are well formed
WellFormed(t) ==
    LET n == Len(t.left)
        ids == 0..(n - 1)
        children == [i \in ids |-> {t.left[i + 1], t.right[i + 1]} \ {NoChild}]
    IN  /\ n >= 1 /\ Len(t.right) = n /\ Len(t.threshold) = n
        /\ \A i \in ids : (t.left[i + 1] = NoChild) <=> (t.right[i + 1] = NoChild)
        /\ \A i \in ids : t.left[i + 1] # NoChild =>
               /\ t.left[i + 1] # t.right[i + 1]
               /\ \A c \in children[i] : i < c /\ c < n
        /\ \A c \in ids \ {0} :
               Cardinality({<<i, side>> \in ids \X {"left", "right"} :
                   (IF side = "left" THEN t.left[i + 1] ELSE t.right[i + 1]) = c}) = 1
        /\ \A i \in ids : 0 \notin children[i]
        /\ {i \in ids : t.left[i + 1] > 0} = {i \in ids : t.right[i + 1] > 0}

\* C20: in every tree of a fitted forest, node 0 is the root, a node has no
\* left child iff it has no right child, the two children of an internal node
\* are distinct with ids between its own and the node count, and every
\* other node is the child of exactly one node on exactly one side.
C20_ChildArraysWellFormed ==
    Fitted => \A i \in DOMAIN estimators : WellFormed(estimators[i])

\* a fitted tree with an internal node below the root
C20_Witness ==
    /\ Fitted
    /\ \E i \in DOMAIN estimators :
           /\ Len(estimators[i].left) >= 5
           /\ \E n \in 2..Len(estimators[i].left) : estimators[i].left[n] # NoChild

----------------------------------------------------------------------------
(* Shapelet trees *)

Leaves(t) == {i \in 0..(Len(t.left) - 1) : t.left[i + 1] = NoChild}

\* C21: apply sends every sample of the training set to exactly one leaf,
\* the leaf the builder put the sample in: the descent from node 0, left
\* when the distance to the shapelet of the node is at most its threshold,
\* ends at a leaf, and the sample sets of the leaves are pairwise disjoint
\* and together are the training set.
C21_ApplyPartitionsTrainingSet ==
    tree.phase = "applied" =>
        LET t == tree.tree_
            train == 1..Len(tree.y)
            leaf_samples(i) == tree.tb.node_samples[i + 1]
        IN  /\ DOMAIN tree.leaf_id = train
            /\ \A s \in train :
                   /\ tree.leaf_id[s] \in Leaves(t)
                   /\ s \in leaf_samples(tree.leaf_id[s])
            /\ \A i, j \in Leaves(t) :
                   i # j => leaf_samples(i) \cap leaf_samples(j) = {}
            /\ UNION {leaf_samples(i) : i \in Leaves(t)} = train

\* a tree of three leaves or more has been applied to its training set
C21_Witness ==
    /\ tree.phase = "applied"
    /\ Cardinality(Leaves(tree.tree_)) >= 3
    /\ Cardinality({tree.leaf_id[s] : s \in DOMAIN tree.leaf_id}) >= 3

Building == tree.phase = "building"
Built == tree.phase \in {"fitted", "applied"}

\* the node a built node, or a task on the stack, was split off
ParentSamples(tb, parent) == tb.node_samples[parent + 1]

\* the build is well founded: the root holds the whole training set, every
\* node still to be built holds at least one sample and fewer than the node
\* it was split off, and every task made is either built or on the stack
WellFounded(tb, train) ==
    LET n == Len(tb.left)
        internal == {i \in 0..(n - 1) : tb.left[i + 1] # NoChild
                                          \/ tb.right[i + 1] # NoChild
                                          \/ \E k \in DOMAIN tb.stack :
                                                 tb.stack[k].parent = i}
    IN  /\ IF n = 0
           THEN Len(tb.stack) = 1 /\ tb.stack[1].samples = train
                /\ tb.stack[1].side = "root"
           ELSE tb.node_samples[1] = train
        /\ \A k \in DOMAIN tb.stack :
               /\ tb.stack[k].samples # {}
               /\ tb.stack[k].side # "root" =>
                      /\ tb.stack[k].samples \subseteq ParentSamples(tb, tb.stack[k].parent)
                      /\ tb.stack[k].samples # ParentSamples(tb, tb.stack[k].parent)
        /\ \A i \in 0..(n - 1) : \A c \in {tb.left[i + 1], tb.right[i + 1]} \ {NoChild} :
               /\ tb.node_samples[c + 1] # {}
               /\ Cardinality(tb.node_samples[c + 1]) < Cardinality(tb.node_samples[i + 1])
        /\ n + Len(tb.stack) = 1 + 2 * Cardinality(internal)
        /\ n + Len(tb.stack) <= 2 * Cardinality(train) - 1

\* every node is a leaf or a split node, and none is left to build
Complete(tb) ==
    /\ tb.stack = <<>>
    /\ Len(tb.left) >= 1
    /\ \A i \in 1..Len(tb.left) : (tb.left[i] = NoChild) <=> (tb.right[i] = NoChild)

C22_BuildState ==
    /\ (Building \/ Built) => WellFounded(tree.tb, 1..Len(tree.y))
    /\ Built => Complete(tree.tb)

\* C22: the build starts from a root holding the whole training set, builds
\* every node it makes exactly once, every split leaving at least one sample
\* on each side and fewer samples than the node that was split, and a build
\* that has started ends with every node a leaf or a split node.
C22_BuildTerminates ==
    /\ []C22_BuildState
    /\ Building ~> Built

\* a tree with two split nodes has been built
C22_Witness ==
    /\ Built
    /\ Len(tree.tb.left) >= 5
    /\ tree.tb.stack = <<>>

\* C23: no node of a tree is deeper than the max_depth the estimator was
\* given: an integer max_depth >= 0 is the depth bound the builder is made
\* with, and only max_depth = None makes a builder without a depth bound.
C23_MaxDepthRespected ==
    (Building \/ Built) =>
        IF tree.given_max_depth = None
        THEN tree.args.max_depth = max_depth_or_default(None)
        ELSE /\ tree.args.max_depth = tree.given_max_depth.v
             /\ \A i \in DOMAIN tree.tb.node_depth :
                    tree.tb.node_depth[i] <= tree.given_max_depth.v

\* fit has made the builder of the tree
BuilderMade == tree.phase \in {"building", "undefined", "fitted", "applied"}

\* C24: for every configuration the constructor accepts and every series
\* of two timesteps or more, the shapelet lengths the builder is made with
\* satisfy 2 <= min <= max <= n_timestep, and the maximum is
\* ceil(n_timestep * max_shapelet_size).
C24_ShapeletLengthBounds ==
    (BuilderMade /\ tree.n_timestep_ >= 2) =>
        /\ 2 <= tree.args.min_shapelet_size
        /\ tree.args.min_shapelet_size <= tree.args.max_shapelet_size
        /\ tree.args.max_shapelet_size <= tree.n_timestep_
        /\ tree.args.max_shapelet_size =
               Ceil(tree.n_timestep_ * tree.max_shapelet_size, SizeDen)

\* C25: the extremely randomized trees make their builder with exactly one
\* candidate shapelet per node, whatever their n_shapelets attribute holds
\* when fit is called.
C25_ExtraTreesOneShapelet ==
    (BuilderMade /\ tree.kind \in ExtraKinds) => tree.args.n_shapelets = 1

----------------------------------------------------------------------------
(* Forest regressors *)

\* C30: a forest regressor hands the targets to its trees as they were
\* given: the targets the trees are built on are the targets of the call,
\* also the random targets of a ShapeletForestEmbedding, and two targets
\* that differ before fit differ when the trees are built.
C30_TargetsUnchanged ==
    (forest.kind \in RegressorKinds /\ forest.phase \in {"building", "fitted"}) =>
        /\ forest.y = forest.y_given
        /\ \A i, j \in DOMAIN forest.y :
               forest.y_given[i] # forest.y_given[j] => forest.y[i] # forest.y[j]

----------------------------------------------------------------------------
(* Variable-length series *)

GetVariableLengthCall == call.fn = "get_variable_length"
TruncateCall == call.fn = "truncate"

\* once the marker appears, every later value of the series is the marker
Trailing(series) ==
    \A i, j \in DOMAIN series : (i < j /\ series[i] = eos) => series[j] = eos

HasMarker(series) == \E i \in DOMAIN series : series[i] = eos

\* the length the docstring of get_variable_length gives a series: the
\* values before the marker when the marker ends the series ([1, 2, 3, eos]
\* is 3, [1, 2, eos, eos] is 2), the buffer otherwise ([1, 2, 3, 4] and
\* [1, eos, 3, 4] are 4)
DocumentedLength(series) ==
    IF HasMarker(series) /\ Trailing(series)
    THEN Cardinality({i \in DOMAIN series : series[i] # eos})
    ELSE Len(series)

\* C26: get_variable_length returns for every series, and every dimension,
\* the length of its documented examples: the values before the marker,
\* the buffer length for a series without marker and for a series whose
\* marker is followed by ordinary values; a series alone gets the number
\* its one-row array gets.
C26_VariableLength ==
    GetVariableLengthCall =>
        /\ Returned
        /\ ret.value = AlongLastAxis(call.x, [q \in AllSeries(call.x) |-> DocumentedLength(q)])
        /\ call.x.ndim = 1 =>
               ret.value = get_variable_length(Array(2, <<call.x.data>>))[1]

\* the values of a series before its first marker
ValuesBeforeMarker(series) ==
    Cardinality({i \in DOMAIN series : \A j \in 1..i : series[j] # eos})

CounterfactualsCall == call.fn = "counterfactuals"
ForestApplyCall == call.fn = "forest_apply"

\* a proximity metric, or the deprecated scoring metric, is given
MetricGiven ==
    \/ call.scoring = Metric
    \/ call.scoring = Deprecated /\ call.proximity = Metric

\* C28: counterfactuals never fails once the explainer has produced the
\* counterfactuals; valid[i] is true exactly when the estimator predicts
\* y[i] for the i-th counterfactual; with the default arguments the pair
\* (x_counterfactuals, valid) is returned, with a proximity or scoring
\* metric the triple (x_counterfactuals, valid, score).
C28_CounterfactualsReturn ==
    CounterfactualsCall =>
        /\ Returned
        /\ ret.value.valid =
               [i \in DOMAIN call.predicted |-> call.predicted[i] = call.y[i]]
        /\ (call.scoring = Deprecated /\ call.proximity = None) => ret.value.n = 2
        /\ MetricGiven => ret.value.n = 3

\* the input has a shape the fitted forest does not take
ShapeError ==
    \/ Last(call.x) # call.self.n_timestep_
    \/ Len(call.x) = 3 /\ call.x[2] # call.self.n_dims_
    \/ Len(call.x) # 3 /\ call.self.n_dims_ > 1

\* C29: the prediction-time validation of a forest raises ValueError, and
\* no other exception, for an input whose timesteps differ from
\* n_timestep_, whose dimensions differ from n_dims_, or that is not 3-D
\* when n_dims_ > 1, and no tree is evaluated.
C29_ShapeErrorIsValueError ==
    (ForestApplyCall /\ ShapeError) =>
        /\ ret.status = "ValueError"
        /\ ~invoked

====
